---------------------------- MODULE Spec2Model ----------------------------
(***************************************************************************)
(* A model of the media browser: the virtual path resolver                 *)
(* (app/utils/photo-path.ts), the file, thumbnail, listing and delete      *)
(* entry points (routes/api.photos.tsx, routes/api.thumbnails.tsx,         *)
(* routes/photos.tsx, routes/photo-view.tsx, routes/slideshow.tsx) and the *)
(* seeded slideshow shuffle.                                               *)
(*                                                                         *)
(* Strings that hold paths are represented by the sequence of segments     *)
(* that String.prototype.split("/") returns for them: "" is <<"">>, "/" is *)
(* <<"","">>, "/data/photos" is <<"","data","photos">>, "a//b/" is         *)
(* <<"a","","b","">>.  Every string has exactly one such representation,   *)
(* and joining two strings with "/" is the concatenation of their          *)
(* sequences.                                                              *)
(***************************************************************************)
EXTENDS Integers, Sequences, FiniteSets, TLC

(***************************************************************************)
(* Bounds of the model.                                                    *)
(***************************************************************************)
\* longest logical path tried, in segments
MaxSegs == 3
\* largest modification time a source file takes
MaxMtime == 2
\* number of writes in which sharp's toFile puts a thumbnail on disk
NumChunks == 2
\* largest slideshow seed tried
MaxSeed == 7
\* longest image list shuffled
MaxItems == 4
\* most entries in the directory tree that is scanned
MaxEntries == 5
\* most images in the order a viewer walks
MaxShown == 3
\* Math.random() returns a multiple of 2^-RandomBits
RandomBits == 4
\* most deletes submitted in one slideshow session
MaxDeletes == 2
\* largest modification time of the files whose cache keys are compared
MaxKeyMtime == 11

(***************************************************************************)
(* String and path helpers (JavaScript String and node:path, posix).       *)
(***************************************************************************)
EmptyStr == <<"">>

\* s without its leading empty segments (leading slashes)
RECURSIVE DropLeadingEmpty(_)
DropLeadingEmpty(s) ==
    IF s = <<>> THEN <<>>
    ELSE IF Head(s) = "" THEN DropLeadingEmpty(Tail(s)) ELSE s

\* s without its trailing empty segments (trailing slashes)
RECURSIVE DropTrailingEmpty(_)
DropTrailingEmpty(s) ==
    IF s = <<>> THEN <<>>
    ELSE IF s[Len(s)] = "" THEN DropTrailingEmpty(SubSeq(s, 1, Len(s) - 1)) ELSE s

\* the string ends with "/"
HasTrailingSlash(s) == Len(s) >= 2 /\ s[Len(s)] = ""

\* (params["*"] || "").replace(/\/$/, ""): one trailing slash is taken off
StripOneTrailingSlash(s) ==
    IF HasTrailingSlash(s) THEN SubSeq(s, 1, Len(s) - 1) ELSE s

\* TrimSlashes that takes off one trailing slash and nothing else
TrimTrailingSlashOnce(s) ==
    IF HasTrailingSlash(s) THEN SubSeq(s, 1, Len(s) - 1) ELSE s

\* urlPath.replace(/^\/+|\/+$/g, "")
TrimSlashes(s) ==
    LET t == DropTrailingEmpty(DropLeadingEmpty(s))
    IN  IF t = <<>> THEN EmptyStr ELSE t

\* parts.slice(1).join("/")
SliceOneJoin(parts) == IF Len(parts) <= 1 THEN EmptyStr ELSE Tail(parts)

\* the string starts with "/"
IsAbsolute(s) == Len(s) >= 2 /\ s[1] = ""

\* node's normalizeString: "" and "." segments are dropped, ".." removes the
\* segment before it; above the start ".." is kept (allowAbove) or dropped
RECURSIVE NormSegs(_, _, _)
NormSegs(s, acc, allowAbove) ==
    IF s = <<>> THEN acc
    ELSE LET h == Head(s)
         IN  IF h = "" \/ h = "." THEN NormSegs(Tail(s), acc, allowAbove)
             ELSE IF h = ".."
                  THEN IF acc # <<>> /\ acc[Len(acc)] # ".."
                       THEN NormSegs(Tail(s), SubSeq(acc, 1, Len(acc) - 1), allowAbove)
                       ELSE IF allowAbove
                            THEN NormSegs(Tail(s), Append(acc, ".."), allowAbove)
                            ELSE NormSegs(Tail(s), acc, allowAbove)
                  ELSE NormSegs(Tail(s), Append(acc, h), allowAbove)

\* path.normalize
PathNormalize(s) ==
    IF s = EmptyStr THEN <<".">>
    ELSE LET n == NormSegs(s, <<>>, ~IsAbsolute(s))
             t == IF HasTrailingSlash(s) THEN <<"">> ELSE <<>>
         IN  IF IsAbsolute(s)
             THEN IF n = <<>> THEN <<"", "">> ELSE <<"">> \o n \o t
             ELSE IF n = <<>> THEN <<".">> \o t ELSE n \o t

\* path.join(a, b): the non-empty arguments joined by "/", then normalized
PathJoin(a, b) ==
    IF a = EmptyStr /\ b = EmptyStr THEN <<".">>
    ELSE IF a = EmptyStr THEN PathNormalize(b)
    ELSE IF b = EmptyStr THEN PathNormalize(a)
    ELSE PathNormalize(a \o b)

\* path.basename(p): the last segment, trailing slashes ignored
PathBasename(p) ==
    LET t == DropTrailingEmpty(p)
    IN  IF t = <<>> THEN "" ELSE t[Len(t)]

\* process.cwd()
Cwd == <<"", "app">>

\* The location the operating system reaches for a path string: relative
\* paths start at the working directory, "." and ".." are resolved.  The
\* result is the list of directory names from the filesystem root.
Canonical(p) ==
    IF IsAbsolute(p) THEN NormSegs(p, <<>>, FALSE)
    ELSE NormSegs(Cwd \o p, <<>>, FALSE)

IsPrefix(a, b) == Len(a) <= Len(b) /\ SubSeq(b, 1, Len(a)) = a

\* the physical path lies in the directory tree of root
WithinRoot(root, p) == IsPrefix(Canonical(root), Canonical(p))


(***************************************************************************)
(* The state.                                                              *)
(***************************************************************************)
VARIABLES
    \* process.env.PHOTO_DIRS after split(","): Unset, or the list of strings
    photoDirsEnv,
    \* the filesystem below the library roots: location -> node
    fs,
    \* the thumbnail cache directory: cache key -> content of <key>.webp
    cache,
    \* the request being served by one of the run-to-completion entry points
    last,
    \* the thumbnail requests in flight, one per slot
    thumb,
    \* the slideshow orders computed for one directory: the first load and
    \* the load that follows it
    shuf,
    \* one run of getAllImages over a directory tree, and what the slideshow
    \* loader returns for it
    scan,
    \* the viewer in the browser: the Slideshow or the PhotoView component
    \* with its loader data and its state
    nav,
    \* the requests one browser navigation makes to the slideshow loader:
    \* the url asked for and the redirects followed
    req

vars == <<photoDirsEnv, fs, cache, last, thumb, shuf, scan, nav, req>>

\* what no request handler of the server writes
fixed == <<photoDirsEnv, shuf, scan, nav, req>>

\* what the file, thumbnail and delete handlers work on
served == <<photoDirsEnv, fs, cache, last, thumb>>

(***************************************************************************)
(* Configuration and filesystem universe.                                  *)
(***************************************************************************)
Unset == <<>>

LibPhotos == <<"", "data", "photos">>
LibPics == <<"", "mnt", "pics">>

\* the values PHOTO_DIRS takes: unset, "", one library, two libraries
EnvChoices == {Unset, <<EmptyStr>>, <<LibPhotos>>, <<LibPhotos, LibPics>>}

\* process.env.PHOTO_DIRS?.split(",") || []
PhotoDirs == photoDirsEnv

NoNode == [kind |-> "none", mtime |-> 0]
DirNode == [kind |-> "dir", mtime |-> 0]
FileNode(m) == [kind |-> "file", mtime |-> m]

\* the node at a location; locations the model does not follow do not exist
NodeAt(f, loc) == IF loc \in DOMAIN f THEN f[loc] ELSE NoNode

\* fs.access(p) resolves
Exists(f, p) == NodeAt(f, Canonical(p)).kind # "none"

(***************************************************************************)
(* resolvePhotoPath (app/utils/photo-path.ts).                             *)
(***************************************************************************)
NoProbes == <<>>

ResolvedNull ==
    [kind |-> "null", photoDirs |-> <<>>, fullPath |-> EmptyStr,
     baseDir |-> EmptyStr, relativePath |-> EmptyStr, branch |-> "null",
     probes |-> NoProbes]

ResolvedRoot(dirs) ==
    [kind |-> "root", photoDirs |-> dirs, fullPath |-> EmptyStr,
     baseDir |-> EmptyStr, relativePath |-> EmptyStr, branch |-> "root",
     probes |-> NoProbes]

ResolvedEntry(full, base, rel, branch, probes) ==
    [kind |-> "entry", photoDirs |-> <<>>, fullPath |-> full,
     baseDir |-> base, relativePath |-> rel, branch |-> branch,
     probes |-> probes]

\* FindAlias with the alias ignored: the first library is taken whatever the
\* first segment is
FindAliasFirstDir(dirs, firstSegment) == IF Len(dirs) > 0 THEN 1 ELSE 0

\* photoDirs.find((dir) => path.basename(dir) === firstSegment): the index of
\* the first such directory, 0 when there is none
FindAlias(dirs, firstSegment) ==
    LET hits == {i \in 1..Len(dirs) : PathBasename(dirs[i]) = firstSegment}
    IN  IF hits = {} THEN 0 ELSE CHOOSE i \in hits : \A j \in hits : i <= j

\* FirstExisting that keeps the last directory under which the path exists
LastExisting(f, dirs, cleanUrl) ==
    LET hits == {i \in 1..Len(dirs) : Exists(f, PathJoin(dirs[i], cleanUrl))}
    IN  IF hits = {} THEN 0 ELSE CHOOSE i \in hits : \A j \in hits : i >= j

\* the compatibility search: the index of the first directory under which
\* the whole logical path exists, 0 when there is none
FirstExisting(f, dirs, cleanUrl) ==
    LET hits == {i \in 1..Len(dirs) : Exists(f, PathJoin(dirs[i], cleanUrl))}
    IN  IF hits = {} THEN 0 ELSE CHOOSE i \in hits : \A j \in hits : i <= j

\* the fs.access probes the compatibility search makes, in order: one per
\* directory up to and including the first hit
CompatProbes(f, dirs, cleanUrl) ==
    LET k == FirstExisting(f, dirs, cleanUrl)
        n == IF k = 0 THEN Len(dirs) ELSE k
    IN  [i \in 1..n |-> [call |-> "access", path |-> PathJoin(dirs[i], cleanUrl),
                          base |-> dirs[i]]]

\* ResolveParts without the default of lines 74-80: a path that is found
\* nowhere resolves to null
ResolvePartsNoDefault(f, photoDirs, cleanUrl, m, k) ==
    IF m # 0 /\ photoDirs[m] # EmptyStr
    THEN ResolvedEntry(PathJoin(photoDirs[m], SliceOneJoin(cleanUrl)),
                       photoDirs[m], SliceOneJoin(cleanUrl), "alias", NoProbes)
    ELSE IF k # 0
    THEN ResolvedEntry(PathJoin(photoDirs[k], cleanUrl), photoDirs[k],
                       cleanUrl, "compat", CompatProbes(f, photoDirs, cleanUrl))
    ELSE ResolvedNull

\* ResolveParts with the compatibility search tried before the alias
ResolvePartsCompatFirst(f, photoDirs, cleanUrl, m, k) ==
    IF k # 0
    THEN ResolvedEntry(PathJoin(photoDirs[k], cleanUrl), photoDirs[k],
                       cleanUrl, "compat", CompatProbes(f, photoDirs, cleanUrl))
    ELSE IF m # 0 /\ photoDirs[m] # EmptyStr
    THEN ResolvedEntry(PathJoin(photoDirs[m], SliceOneJoin(cleanUrl)),
                       photoDirs[m], SliceOneJoin(cleanUrl), "alias", NoProbes)
    ELSE ResolvedEntry(PathJoin(photoDirs[1], cleanUrl), photoDirs[1],
                       cleanUrl, "default", CompatProbes(f, photoDirs, cleanUrl))

\* ResolveParts with the existence probes made on the alias branch too
ResolvePartsProbeAlias(f, photoDirs, cleanUrl, m, k) ==
    IF m # 0 /\ photoDirs[m] # EmptyStr
    THEN ResolvedEntry(PathJoin(photoDirs[m], SliceOneJoin(cleanUrl)),
                       photoDirs[m], SliceOneJoin(cleanUrl), "alias",
                       CompatProbes(f, photoDirs, cleanUrl))
    ELSE IF k # 0
    THEN ResolvedEntry(PathJoin(photoDirs[k], cleanUrl), photoDirs[k],
                       cleanUrl, "compat", CompatProbes(f, photoDirs, cleanUrl))
    ELSE ResolvedEntry(PathJoin(photoDirs[1], cleanUrl), photoDirs[1],
                       cleanUrl, "default", CompatProbes(f, photoDirs, cleanUrl))

\* lines 36-80: the path is not empty; m is the library whose alias the first
\* segment is and k the library the compatibility search finds (0: none)
ResolveParts(f, photoDirs, cleanUrl, m, k) ==
    IF m # 0 /\ photoDirs[m] # EmptyStr
    THEN ResolvedEntry(PathJoin(photoDirs[m], SliceOneJoin(cleanUrl)),
                       photoDirs[m], SliceOneJoin(cleanUrl), "alias", NoProbes)
    ELSE IF k # 0
    THEN ResolvedEntry(PathJoin(photoDirs[k], cleanUrl), photoDirs[k],
                       cleanUrl, "compat", CompatProbes(f, photoDirs, cleanUrl))
    ELSE ResolvedEntry(PathJoin(photoDirs[1], cleanUrl), photoDirs[1],
                       cleanUrl, "default", CompatProbes(f, photoDirs, cleanUrl))

\* lines 23-34: no library, or the empty path
ResolveClean(f, photoDirs, cleanUrl) ==
    IF Len(photoDirs) = 0 THEN ResolvedNull
    ELSE IF cleanUrl = EmptyStr THEN ResolvedRoot(photoDirs)
    ELSE ResolveParts(f, photoDirs, cleanUrl, FindAlias(photoDirs, cleanUrl[1]),
                      FirstExisting(f, photoDirs, cleanUrl))

resolvePhotoPath(f, urlPath) == ResolveClean(f, PhotoDirs, TrimSlashes(urlPath))

(***************************************************************************)
(* Requests served by the run-to-completion entry points.                  *)
(***************************************************************************)
\* the segments logical paths are built from
Segs == {"", "photos", "pics", "..", "a.jpg"}

\* the logical paths tried: every string of 1..MaxSegs such segments
UrlPaths == UNION {[1..n -> Segs] : n \in 1..MaxSegs}

\* the files the model follows, by location
FilePhotosA == <<"data", "photos", "a.jpg">>
FilePicsA == <<"mnt", "pics", "a.jpg">>
FileOutsideA == <<"data", "a.jpg">>
Files == {FilePhotosA, FilePicsA, FileOutsideA}

\* the directories, which no operation of the program creates or removes
Dirs == {<<>>, <<"app">>, <<"data">>, <<"data", "photos">>, <<"mnt">>,
         <<"mnt", "pics">>}

\* the filesystems with the given files present, each with mtime 1
FsWith(present) ==
    [loc \in Dirs \cup Files |->
        IF loc \in Dirs THEN DirNode
        ELSE IF loc \in present THEN FileNode(1) ELSE NoNode]

\* the bytes of the file at a location
FileContent(f, loc) == [of |-> loc, version |-> f[loc].mtime]
NoBody == [of |-> <<>>, version |-> 0]

Access(call, p, base) == [call |-> call, path |-> p, base |-> base]

\* "."
Dot == <<46>>

\* String.prototype.toLowerCase and the i flag of a regular expression, on
\* ASCII letters: capitals are read as small letters
ToLower(c) == IF c >= 65 /\ c <= 90 THEN c + 32 ELSE c
LowerCase(str) == [i \in 1..Len(str) |-> ToLower(str[i])]

\* the UTF-16 code units of the file names the file loader is asked for
Chars(name) ==
    CASE name = "a.jpg" -> <<97, 46, 106, 112, 103>>
      [] name = "b.PNG" -> <<98, 46, 80, 78, 71>>
      [] name = "c.Jpeg" -> <<99, 46, 74, 112, 101, 103>>
      [] name = "d.gif" -> <<100, 46, 103, 105, 102>>
      [] name = "e.webp" -> <<101, 46, 119, 101, 98, 112>>
      [] name = "notes.txt" -> <<110, 111, 116, 101, 115, 46, 116, 120, 116>>
      [] name = "jpg" -> <<106, 112, 103>>
      [] name = "g.tar.png" -> <<103, 46, 116, 97, 114, 46, 112, 110, 103>>

\* the positions of the dots in a name
DotsIn(str) == {i \in 1..Len(str) : <<str[i]>> = Dot}

\* path.extname of a base name: from the last dot to the end; none when
\* there is no dot, when the only dot is the first character, and for ".."
PathExtname(str) ==
    LET dots == DotsIn(str)
        at == CHOOSE i \in dots : \A j \in dots : i >= j
    IN  IF dots = {} THEN <<>>
        ELSE IF at = 1 THEN <<>>
        ELSE IF str = Dot \o Dot THEN <<>>
        ELSE SubSeq(str, at, Len(str))

\* getMimeType that knows ".jpg" only
getMimeTypeJpgOnly(ext) ==
    IF ext = <<46, 106, 112, 103>> THEN "image/jpeg" ELSE "application/octet-stream"

\* lines 45-54 of the file loader: mimeTypes[ext] || "application/octet-stream"
getMimeType(ext) ==
    CASE ext = <<46, 106, 112, 103>> -> "image/jpeg"
      [] ext = <<46, 106, 112, 101, 103>> -> "image/jpeg"
      [] ext = <<46, 112, 110, 103>> -> "image/png"
      [] ext = <<46, 103, 105, 102>> -> "image/gif"
      [] ext = <<46, 119, 101, 98, 112>> -> "image/webp"
      [] OTHER -> "application/octet-stream"

\* lines 27-28: getMimeType(path.extname(fullPath).toLowerCase())
ContentTypeOf(fullPath) ==
    getMimeType(LowerCase(PathExtname(Chars(PathBasename(fullPath)))))

NoRequest ==
    [op |-> "none", urlPath |-> EmptyStr, reqReachable |-> FALSE,
     authorized |-> FALSE, resolved |-> ResolvedNull, status |-> 0,
     result |-> "none", body |-> NoBody, accessed |-> <<>>,
     contentType |-> "none"]

Served(op, urlPath, reach, authed, resolved, status, result, body, accessed) ==
    [op |-> op, urlPath |-> urlPath, reqReachable |-> reach,
     authorized |-> authed, resolved |-> resolved, status |-> status,
     result |-> result, body |-> body, accessed |-> accessed,
     contentType |-> "none"]

\* the guard of the two api loaders: the check runs only when
\* globalThis.__RR_REQUEST holds a Request
AuthRejects(reach, authed) == reach /\ ~authed

\* lines 10-32 of the file loader: stat, the test for a regular file, read
ServeResolved(op, urlPath, reach, authed, resolved, node) ==
    IF resolved.kind = "entry"
    THEN IF node.kind = "file"
         THEN [Served(op, urlPath, reach, authed, resolved, 200, "file",
                      FileContent(fs, Canonical(resolved.fullPath)),
                      resolved.probes \o
                        <<Access("stat", resolved.fullPath, resolved.baseDir),
                          Access("readFile", resolved.fullPath, resolved.baseDir)>>)
                 EXCEPT !.contentType = ContentTypeOf(resolved.fullPath)]
         ELSE Served(op, urlPath, reach, authed, resolved, 404, "notfound",
                     NoBody, resolved.probes \o
                       <<Access("stat", resolved.fullPath, resolved.baseDir)>>)
    ELSE Served(op, urlPath, reach, authed, resolved, 404, "notfound",
                NoBody, resolved.probes)

ServeEntry(op, urlPath, reach, authed, resolved) ==
    ServeResolved(op, urlPath, reach, authed, resolved,
                  NodeAt(fs, Canonical(resolved.fullPath)))

\* what the file loader does once the caller is let through: resolve, then
\* serve what was resolved
ServeFile(op, urlPath, reach, authed) ==
    ServeEntry(op, urlPath, reach, authed, resolvePhotoPath(fs, urlPath))

\* loader of routes/api.photos.tsx, the variant that checks the caller
loader_api_photos(urlPath, reach, authed) ==
    /\ last.op = "none"
    /\ last' = IF AuthRejects(reach, authed)
               THEN Served("api.photos", urlPath, reach, authed, ResolvedNull,
                           401, "unauthorized", NoBody, <<>>)
               ELSE ServeFile("api.photos", urlPath, reach, authed)
    /\ UNCHANGED <<fixed, fs, cache, thumb>>

\* loader of routes/api.photos.tsx, the variant with no check of the caller
loader_api_photos_open(urlPath, authed) ==
    /\ last.op = "none"
    /\ last' = ServeFile("api.photos.open", urlPath, FALSE, authed)
    /\ UNCHANGED <<fixed, fs, cache, thumb>>

\* Unlink removing every regular file rather than the one at p
UnlinkEverything(f, p) ==
    [loc \in DOMAIN f |-> IF f[loc].kind = "file" THEN NoNode ELSE f[loc]]

\* fs.unlink(p): removes a regular file, fails on anything else
CanUnlink(f, p) == NodeAt(f, Canonical(p)).kind = "file"
Unlink(f, p) == [f EXCEPT ![Canonical(p)] = NoNode]

\* the delete both actions perform once the path is resolved: nothing for
\* the root or without libraries, else fs.unlink in a try/catch
DeleteResolved(op, filePath, hasNextUrl, resolved) ==
    IF resolved.kind = "entry"
    THEN IF CanUnlink(fs, resolved.fullPath)
         THEN /\ fs' = Unlink(fs, resolved.fullPath)
              /\ last' = Served(op, filePath, FALSE, FALSE, resolved, 200,
                                IF hasNextUrl THEN "redirect" ELSE "ok", NoBody,
                                resolved.probes \o
                                  <<Access("unlink", resolved.fullPath, resolved.baseDir)>>)
         ELSE /\ fs' = fs
              /\ last' = Served(op, filePath, FALSE, FALSE, resolved, 200,
                                "error", NoBody,
                                resolved.probes \o
                                  <<Access("unlink", resolved.fullPath, resolved.baseDir)>>)
    ELSE /\ fs' = fs
         /\ last' = Served(op, filePath, FALSE, FALSE, resolved, 200,
                           "null", NoBody, resolved.probes)

DeleteFile(op, filePath, hasNextUrl) ==
    DeleteResolved(op, filePath, hasNextUrl, resolvePhotoPath(fs, filePath))

\* action of routes/photo-view.tsx
action_photo_view(urlPath, intent, hasNextUrl) ==
    /\ last.op = "none"
    /\ IF intent = "delete"
       THEN DeleteFile("view.action", urlPath, hasNextUrl)
       ELSE /\ fs' = fs
            /\ last' = Served("view.action", urlPath, FALSE, FALSE, ResolvedNull,
                              200, "ignored", NoBody, <<>>)
    /\ UNCHANGED <<fixed, cache, thumb>>

\* action of routes/slideshow.tsx
action_slideshow(filePath, intent) ==
    /\ last.op = "none"
    /\ IF intent = "delete" /\ filePath # EmptyStr
       THEN DeleteFile("slideshow.action", filePath, FALSE)
       ELSE /\ fs' = fs
            /\ last' = Served("slideshow.action", filePath, FALSE, FALSE,
                              ResolvedNull, 200, "ignored", NoBody, <<>>)
    /\ UNCHANGED <<fixed, cache, thumb>>

\* the response has been sent; the next request is taken
Respond ==
    /\ last.op # "none"
    /\ last' = NoRequest
    /\ UNCHANGED <<fixed, fs, cache, thumb>>

Intents == {"delete", "view"}

\* the files followed when an alias competes with the compatibility search:
\* a.jpg in each library, and in a directory of the first library that is
\* named like the second
FilePhotosPicsA == <<"data", "photos", "pics", "a.jpg">>
AliasFiles == {FilePhotosA, FilePicsA, FilePhotosPicsA}
AliasDirs == Dirs \cup {<<"data", "photos", "pics">>}

AliasFsWith(present) ==
    [loc \in AliasDirs \cup AliasFiles |->
        IF loc \in AliasDirs THEN DirNode
        ELSE IF loc \in present THEN FileNode(1) ELSE NoNode]

\* the logical paths asked for: an alias first, an alias in another case,
\* an alias that is not the first segment, and no alias
AliasUrls ==
    {<<"pics", "a.jpg">>, <<"photos", "a.jpg">>, <<"pics">>, <<"", "pics", "a.jpg", "">>,
     <<"Pics", "a.jpg">>, <<"PICS", "a.jpg">>, <<"a.jpg", "pics">>,
     <<"photos", "pics", "a.jpg">>, <<"a.jpg">>}

\* the names of the files the raw fetch is tried on: the extensions of the
\* table in several spellings, a text file, a name without a dot, a name
\* with two dots
FetchNames ==
    {"a.jpg", "b.PNG", "c.Jpeg", "d.gif", "e.webp", "notes.txt", "jpg", "g.tar.png"}

FetchFile(name) == <<"data", "photos", name>>

\* the filesystems of the raw fetch: the directories and the given files
FetchFsWith(present) ==
    [loc \in Dirs \cup {FetchFile(name) : name \in FetchNames} |->
        IF loc \in Dirs THEN DirNode
        ELSE IF loc \in present THEN FileNode(1) ELSE NoNode]

\* the logical paths fetched: the root, a directory, and each name by its
\* alias and without it
FetchUrls ==
    {EmptyStr, <<"", "">>, <<"photos">>}
       \cup {<<"photos", name>> : name \in FetchNames}
       \cup {<<name>> : name \in FetchNames}

(***************************************************************************)
(* The thumbnail loader (routes/api.thumbnails.tsx), one step per await.   *)
(***************************************************************************)
\* the requests that may be in flight together
Slots == {1, 2}

\* the logical paths asked for: a file, a directory, the root, a file that
\* is in no library
ThumbUrls == {<<"photos", "a.jpg">>, <<"photos">>, EmptyStr, <<"pics", "a.jpg">>}

\* the string a path is: its segments joined by "/"
RECURSIVE PathString(_)
PathString(p) ==
    IF Len(p) = 1 THEN p[1]
    ELSE p[1] \o "/" \o PathString(Tail(p))

\* what is fed to the hash: update(fullPath).update(String(stat.mtimeMs))
HashInput(fullPath, mtime) == PathString(fullPath) \o ToString(mtime)

\* crypto.createHash("md5")...digest("hex"), taken to be free of collisions:
\* a digest is identified with the string that was hashed
Md5Hex(input) == input

\* CacheKey with the modification time left out of the hash
CacheKeyPathOnly(fullPath, mtime) == Md5Hex(PathString(fullPath))

\* the name of the cache file, CACHE_DIR/<hash>.webp, by its hash
CacheKey(fullPath, mtime) == Md5Hex(HashInput(fullPath, mtime))

\* the content of a cache file: the chunks of the thumbnail it holds
AllChunks == 1..NumChunks
EmptyContent == {}
Complete(content) == content = AllChunks
NoKey == ""

\* Hit with the cache never consulted
HitNever(c, key) == FALSE

\* fs.readFile(cachePath) resolves: the cache file is there
Hit(c, key) == key \in DOMAIN c

IdleSlot ==
    [pc |-> "idle", authorized |-> FALSE, resolved |-> ResolvedNull,
     statKind |-> "none", mtime |-> 0, key |-> NoKey, status |-> 0,
     result |-> "none", body |-> EmptyContent, accessed |-> <<>>,
     generated |-> FALSE, next |-> 0, pred |-> 0]

\* the request that completed last before slot r takes a new one: the other
\* slot's, when it is complete and nothing else is in flight
Predecessor(r) ==
    LET done == {s \in Slots \ {r} : thumb[s].pc = "done"}
    IN  IF done # {} /\ \A s \in Slots \ {r} : thumb[s].pc \in {"idle", "done"}
        THEN CHOOSE s \in done : TRUE
        ELSE 0

\* the slot after the check of the caller and resolvePhotoPath
Begun(base, reach, authed, resolved) ==
    IF AuthRejects(reach, authed)
    THEN [base EXCEPT !.pc = "done", !.status = 401, !.result = "unauthorized"]
    ELSE IF resolved.kind # "entry"
    THEN [base EXCEPT !.pc = "done", !.status = 404, !.result = "notfound",
                      !.resolved = resolved, !.accessed = resolved.probes]
    ELSE [base EXCEPT !.pc = "stat", !.resolved = resolved,
                      !.accessed = resolved.probes]

\* lines 25-38: the check of the caller, then resolvePhotoPath
T_Begin(r, urlPath, reach, authed) ==
    /\ thumb[r].pc = "idle"
    /\ thumb' = [thumb EXCEPT ![r] =
          Begun([IdleSlot EXCEPT !.authorized = authed, !.pred = Predecessor(r)],
                reach, authed, resolvePhotoPath(fs, urlPath))]
    /\ UNCHANGED <<fixed, fs, cache, last>>

\* the slot after fs.stat found node at fullPath
Statted(t, fullPath, node) ==
    IF node.kind = "none"
    THEN [t EXCEPT !.pc = "done", !.status = 500, !.result = "error",
                   !.statKind = node.kind,
                   !.accessed = Append(@, Access("stat", fullPath, t.resolved.baseDir))]
    ELSE IF node.kind # "file"
    THEN [t EXCEPT !.pc = "done", !.status = 404, !.result = "notfound",
                   !.statKind = node.kind,
                   !.accessed = Append(@, Access("stat", fullPath, t.resolved.baseDir))]
    ELSE [t EXCEPT !.pc = "readCache", !.mtime = node.mtime,
                   !.key = CacheKey(fullPath, node.mtime),
                   !.statKind = node.kind,
                   !.accessed = Append(@, Access("stat", fullPath, t.resolved.baseDir))]

\* lines 42-55: fs.stat, which throws for a path that does not exist, the
\* test for a regular file, and the cache key
T_Stat(r) ==
    /\ thumb[r].pc = "stat"
    /\ thumb' = [thumb EXCEPT ![r] =
          Statted(thumb[r], thumb[r].resolved.fullPath,
                  NodeAt(fs, Canonical(thumb[r].resolved.fullPath)))]
    /\ UNCHANGED <<fixed, fs, cache, last>>

\* lines 57-68: fs.readFile(cachePath); a cache file that is there is
\* returned as it is
T_ReadCache(r) ==
    /\ thumb[r].pc = "readCache"
    /\ thumb' = [thumb EXCEPT ![r] =
          IF Hit(cache, thumb[r].key)
          THEN [@ EXCEPT !.pc = "done", !.status = 200, !.result = "thumbnail",
                         !.body = cache[thumb[r].key]]
          ELSE [@ EXCEPT !.pc = "generate"]]
    /\ UNCHANGED <<fixed, fs, cache, last>>

\* the cache directory after toFile has opened cachePath for writing: the
\* file is created, or cut to length 0 when it is there
OpenForWrite(c, key) == (key :> EmptyContent) @@ c

\* lines 70-78: sharp(...).toFile(cachePath) starts: the output file is
\* opened in place
T_Generate(r) ==
    /\ thumb[r].pc = "generate"
    /\ cache' = OpenForWrite(cache, thumb[r].key)
    /\ thumb' = [thumb EXCEPT ![r] = [@ EXCEPT !.pc = "write", !.generated = TRUE,
                                                !.next = 1]]
    /\ UNCHANGED <<fixed, fs, last>>

\* toFile writes the next chunk at its own offset
T_Write(r) ==
    /\ thumb[r].pc = "write"
    /\ cache' = [cache EXCEPT ![thumb[r].key] = @ \cup {thumb[r].next}]
    /\ thumb' = [thumb EXCEPT ![r] =
          IF thumb[r].next = NumChunks
          THEN [@ EXCEPT !.pc = "reread"]
          ELSE [@ EXCEPT !.next = @ + 1]]
    /\ UNCHANGED <<fixed, fs, last>>

\* lines 88-91: decode, resize, encode or write fails: toFile rejects, before
\* the output file is opened or with the file left as far as it was written
T_Fail(r) ==
    /\ thumb[r].pc \in {"generate", "write"}
    /\ thumb' = [thumb EXCEPT ![r] = [@ EXCEPT !.pc = "done", !.status = 500,
                                                !.result = "error",
                                                !.generated = TRUE]]
    /\ UNCHANGED <<fixed, fs, cache, last>>

\* lines 80-87: fs.readFile(cachePath) after toFile resolved
T_Reread(r) ==
    /\ thumb[r].pc = "reread"
    /\ thumb' = [thumb EXCEPT ![r] =
          [@ EXCEPT !.pc = "done", !.status = 200, !.result = "thumbnail",
                    !.body = cache[thumb[r].key]]]
    /\ UNCHANGED <<fixed, fs, cache, last>>

\* the response has been sent and the slot takes the next request
T_Finish(r) ==
    /\ thumb[r].pc = "done"
    /\ thumb' = [s \in Slots |->
          IF s = r THEN IdleSlot
          ELSE IF thumb[s].pred = r THEN [thumb[s] EXCEPT !.pred = 0]
          ELSE thumb[s]]
    /\ UNCHANGED <<fixed, fs, cache, last>>

\* outside the program: a source file is saved again or its time is set
Touch(loc, m) ==
    /\ fs[loc].kind = "file"
    /\ fs[loc].mtime # m
    /\ fs' = [fs EXCEPT ![loc] = FileNode(m)]
    /\ UNCHANGED <<fixed, cache, last, thumb>>

(***************************************************************************)
(* The seeded shuffle of the slideshow loader (routes/slideshow.tsx).      *)
(*                                                                         *)
(* A 32-bit word is the pair <<high half, low half>> of 16-bit numbers, so *)
(* that no intermediate value leaves the range of the checker's integers.  *)
(* The bitwise operators of JavaScript read their operands modulo 2^32,    *)
(* and the generator's state is only ever read by them, so the state is    *)
(* kept modulo 2^32 as well.                                               *)
(***************************************************************************)
Half == 2 ^ 16

Word(hi, lo) == <<hi % Half, lo % Half>>

\* seed >>> 0 of a seed that is a non-negative integer below 2^31
ToUint32(n) == Word(n \div Half, n % Half)

RECURSIVE Xor16(_, _, _)
Xor16(x, y, bits) ==
    IF bits = 0 THEN 0
    ELSE ((x + y) % 2) + 2 * Xor16(x \div 2, y \div 2, bits - 1)

RECURSIVE Or16(_, _, _)
Or16(x, y, bits) ==
    IF bits = 0 THEN 0
    ELSE (IF x % 2 = 1 \/ y % 2 = 1 THEN 1 ELSE 0)
         + 2 * Or16(x \div 2, y \div 2, bits - 1)

\* x ^ y
WXor(x, y) == <<Xor16(x[1], y[1], 16), Xor16(x[2], y[2], 16)>>

\* x | c for a constant c below 2^16
WOrSmall(x, c) == <<x[1], Or16(x[2], c, 16)>>

\* x >>> n for 0 < n < 16
WShr(x, n) == <<x[1] \div (2 ^ n), (x[2] \div (2 ^ n)) + (x[1] % (2 ^ n)) * (2 ^ (16 - n))>>

\* x + y modulo 2^32
WAdd(x, y) == Word(x[1] + y[1] + ((x[2] + y[2]) \div Half), x[2] + y[2])

\* a * b modulo 2^16 for a, b below 2^16
MulLow16(a, b) == ((a % 256) * b + (((a \div 256) * b) % 256) * 256) % Half

\* a * b as a word for a, b below 2^16
MulFull16(a, b) ==
    Word(((a \div 256) * b) \div 256
           + (((a % 256) * b) + (((a \div 256) * b) % 256) * 256) \div Half,
         ((a % 256) * b) + (((a \div 256) * b) % 256) * 256)

\* Math.imul(x, y): the low 32 bits of the product
WImul(x, y) ==
    WAdd(MulFull16(x[2], y[2]),
         Word(MulLow16(x[1], y[2]) + MulLow16(x[2], y[1]), 0))

\* 0x6d2b79f5
Increment == <<27947, 31221>>

\* mulberry32, line 110: a += 0x6d2b79f5
Advance(a) == WAdd(a, Increment)

\* line 111: t = Math.imul(t ^ (t >>> 15), t | 1)
Mix1(t) == WImul(WXor(t, WShr(t, 15)), WOrSmall(t, 1))

\* line 112: t ^= t + Math.imul(t ^ (t >>> 7), t | 61)
Mix2(t) == WXor(t, WAdd(t, WImul(WXor(t, WShr(t, 7)), WOrSmall(t, 61))))

\* line 113: (t ^ (t >>> 14)) >>> 0, the numerator of the draw over 2^32
Mix3(t) == WXor(t, WShr(t, 14))

\* the 32-bit value of the draw made from state a (after its increment)
Draw(a) == Mix3(Mix2(Mix1(a)))

\* line 120: Math.floor(rand() * (i + 1)) for the draw u / 2^32 and n = i + 1,
\* n below 2^15: floor(u * n / 2^32)
ScaleDraw(u, n) == (u[1] * n + ((u[2] * n) \div Half)) \div Half

\* Swap that copies the element at j to i and leaves j as it is
SwapCopy(images, i, j) == [images EXCEPT ![i] = images[j]]

\* line 121: the elements at i and j change places (1-based positions)
Swap(images, i, j) == [images EXCEPT ![i] = images[j], ![j] = images[i]]

\* the loads of one slideshow: the first, and one that follows it with the
\* same seed (a reload, or the revalidation after a delete)
Runs == {1, 2}

\* the sorted list getAllImages returns for n images, each image named by
\* its rank in the sorted order
SortedImages(n) == [i \in 1..n |-> i]

\* the sorted list once the image of rank k is deleted (k = 0: none is)
RECURSIVE Without(_, _)
Without(images, k) ==
    IF images = <<>> THEN <<>>
    ELSE IF Head(images) = k THEN Tail(images)
    ELSE <<Head(images)>> \o Without(Tail(images), k)

\* what load r scans: the first load the whole list, the second the list
\* without the deleted image
Scanned(r) == IF r = 1 THEN shuf.input ELSE Without(shuf.input, shuf.removed)

\* Gen with one generator at module level, shared by the loads
GenShared(r) == 1

\* line 117: const rand = mulberry32(seed >>> 0), a generator of the load's
\* own: the generator load r draws from
Gen(r) == r

NoRun == [pc |-> "start", images |-> <<>>, i |-> 0]

\* Shuffles that does not look at the random parameter
ShufflesAlways(random) == TRUE

\* line 104: random && seedParam, for a url that carries a seed: the list
\* is shuffled only when random order is asked for
Shuffles(random) == random

\* lines 89-117: the scan result and the generator made from the seed
ShuffleStart(r) ==
    /\ shuf.run[r].pc = "start"
    /\ shuf' = [shuf EXCEPT
          !.run[r] = [pc |-> IF Shuffles(shuf.random) /\ Len(Scanned(r)) > 1
                             THEN "loop" ELSE "done",
                      images |-> Scanned(r), i |-> Len(Scanned(r))],
          !.a[Gen(r)] = ToUint32(shuf.seed)]
    /\ UNCHANGED <<served, scan, nav, req>>

\* lines 119-122: one turn of the loop: a draw, and the swap
ShuffleTurn(r) ==
    /\ shuf.run[r].pc = "loop"
    /\ shuf' = [shuf EXCEPT
          !.run[r] = [pc |-> IF shuf.run[r].i - 1 > 1 THEN "loop" ELSE "done",
                      images |-> Swap(shuf.run[r].images, shuf.run[r].i,
                                      ScaleDraw(Draw(Advance(shuf.a[Gen(r)])),
                                                shuf.run[r].i) + 1),
                      i |-> shuf.run[r].i - 1],
          !.a[Gen(r)] = Advance(shuf.a[Gen(r)])]
    /\ UNCHANGED <<served, scan, nav, req>>

NoShuffle ==
    [random |-> TRUE, seed |-> 0, input |-> <<>>, removed |-> 0,
     run |-> [r \in Runs |-> NoRun], a |-> [r \in Runs |-> <<0, 0>>]]

\* the order a finished load returned
Order(r) == shuf.run[r].images

(***************************************************************************)
(* getAllImages of the slideshow (routes/slideshow.tsx), one step per      *)
(* directory entry.  A file name is the sequence of its UTF-16 code units, *)
(* so that the regular expression and the order of Array.prototype.sort    *)
(* are computed on the characters.                                         *)
(***************************************************************************)
Sep == <<47>>

NameBPng == <<98, 46, 112, 110, 103>>
NameAJpgUpper == <<97, 46, 74, 80, 71>>
NameNotesTxt == <<110, 111, 116, 101, 115, 46, 116, 120, 116>>
NameUpperBJpeg == <<66, 46, 106, 112, 101, 103>>
NameJpgNoDot == <<106, 112, 103>>
NameLGif == <<108, 46, 103, 105, 102>>
NameSub == <<115, 117, 98>>
NameCWebp == <<99, 46, 119, 101, 98, 112>>
NameXJpg == <<120, 46, 106, 112, 103>>
NameEGif == <<101, 46, 103, 105, 102>>

\* jpg|jpeg|png|gif|webp
ImageExtensions ==
    {<<106, 112, 103>>, <<106, 112, 101, 103>>, <<112, 110, 103>>,
     <<103, 105, 102>>, <<119, 101, 98, 112>>}

\* a directory entry: the directory it is in (the names from the scan
\* root), its name and what its Dirent says it is
Entry(parent, name, kind) == [parent |-> parent, name |-> name, kind |-> kind]

ScanRoot == <<>>

\* the entries a scanned tree is made of: images in several spellings, a
\* text file, a file named like an extension, a link named like an image,
\* a directory, a directory named like an image, and files in both
EntryChoices ==
    {Entry(ScanRoot, NameBPng, "file"), Entry(ScanRoot, NameAJpgUpper, "file"),
     Entry(ScanRoot, NameNotesTxt, "file"), Entry(ScanRoot, NameUpperBJpeg, "file"),
     Entry(ScanRoot, NameJpgNoDot, "file"), Entry(ScanRoot, NameLGif, "other"),
     Entry(ScanRoot, NameSub, "dir"), Entry(<<NameSub>>, NameCWebp, "file"),
     Entry(ScanRoot, NameXJpg, "dir"), Entry(<<NameXJpg>>, NameEGif, "file")}

DirOf(e) == Append(e.parent, e.name)

\* the directories of a tree: the scan root and the entries that are
\* directories
DirsOf(present) == {ScanRoot} \cup {DirOf(e) : e \in {x \in present : x.kind = "dir"}}

\* every entry lies in a directory of the tree
IsTree(present) == \A e \in present : e.parent \in DirsOf(present)

\* the trees of at most MaxEntries entries
Trees == {t \in SUBSET EntryChoices : Cardinality(t) <= MaxEntries /\ IsTree(t)}

\* the string ends with the suffix, case ignored
EndsWithIgnoreCase(str, suffix) ==
    /\ Len(str) >= Len(suffix)
    /\ LowerCase(SubSeq(str, Len(str) - Len(suffix) + 1, Len(str))) = LowerCase(suffix)

\* IsImageName with the i flag left out
IsImageNameCaseSensitive(name) ==
    \E ext \in ImageExtensions :
        /\ Len(name) >= Len(ext) + 1
        /\ SubSeq(name, Len(name) - Len(ext), Len(name)) = Dot \o ext

\* line 53: /\.(jpg|jpeg|png|gif|webp)$/i.test(entry.name)
IsImageName(name) ==
    \E ext \in ImageExtensions : EndsWithIgnoreCase(name, Dot \o ext)

\* lines 45-47: relativePath ? path.join(relativePath, entry.name) : entry.name
JoinRel(relativePath, name) ==
    IF relativePath = <<>> THEN name ELSE relativePath \o Sep \o name

\* a < b in the order of the default sort: code unit by code unit, a proper
\* prefix first
RECURSIVE StrLess(_, _)
StrLess(a, b) ==
    IF b = <<>> THEN FALSE
    ELSE IF a = <<>> THEN TRUE
    ELSE IF Head(a) # Head(b) THEN Head(a) < Head(b)
    ELSE StrLess(Tail(a), Tail(b))

\* str put into a sorted list at its place
RECURSIVE InsertSorted(_, _)
InsertSorted(str, sorted) ==
    IF sorted = <<>> THEN <<str>>
    ELSE IF StrLess(Head(sorted), str)
         THEN <<Head(sorted)>> \o InsertSorted(str, Tail(sorted))
         ELSE <<str>> \o sorted

\* line 61: images.sort()
RECURSIVE ArraySort(_)
ArraySort(images) ==
    IF images = <<>> THEN <<>>
    ELSE InsertSorted(Head(images), ArraySort(Tail(images)))

\* OnReaddirError with a directory that cannot be read taken as empty
OnReaddirErrorSkip(dir) == "skip"

\* line 41: nothing catches a readdir that rejects, so the rejection goes up
\* through every scanDir to the caller of getAllImages
OnReaddirError(dir) == "reject"

Frame(dir, relativePath, pending) ==
    [dir |-> dir, relativePath |-> relativePath, pending |-> pending]

\* line 41: what readdir returns for a directory of the tree
Readdir(present, dir) == {e \in present : e.parent = dir}

NoScan ==
    [present |-> {}, unreadable |-> {}, pc |-> "off", stack |-> <<>>,
     images |-> <<>>, outcome |-> "none", loaded |-> <<>>,
     pending |-> {}, enumerated |-> <<>>, dirs |-> <<>>, files |-> <<>>,
     items |-> <<>>]

\* the scan of a tree, some of whose directories cannot be read, about to
\* begin
ScanOf(present, unreadable) ==
    [NoScan EXCEPT !.present = present, !.unreadable = unreadable, !.pc = "start"]

Top == scan.stack[Len(scan.stack)]

\* the scan after readdir of dir (relative path rel) was called from the
\* state s: the entries are walked next, or the scan has failed
Entered(s, dir, rel) ==
    IF dir \in s.unreadable
    THEN IF OnReaddirError(dir) = "reject"
         THEN [s EXCEPT !.pc = "settled", !.outcome = "rejected", !.stack = <<>>]
         ELSE [s EXCEPT !.pc = "scan", !.stack = Append(@, Frame(dir, rel, {}))]
    ELSE [s EXCEPT !.pc = "scan",
                   !.stack = Append(@, Frame(dir, rel, Readdir(s.present, dir)))]

\* line 60: scanDir(dirPath)
ScanStart ==
    /\ scan.pc = "start"
    /\ scan' = Entered(scan, ScanRoot, <<>>)
    /\ UNCHANGED <<served, shuf, nav, req>>

\* the scan with entry e of the top frame dealt with
Visited(s, e) ==
    [s EXCEPT !.stack[Len(s.stack)].pending = @ \ {e}]

\* lines 43-57: one turn of the loop over the entries, which come in the
\* order of the platform
ScanEntry(e) ==
    /\ scan.pc = "scan"
    /\ e \in Top.pending
    /\ scan' = IF e.kind = "dir"
               THEN Entered(Visited(scan, e), DirOf(e), JoinRel(Top.relativePath, e.name))
               ELSE IF e.kind = "file" /\ IsImageName(e.name)
               THEN [Visited(scan, e) EXCEPT
                        !.images = Append(@, JoinRel(Top.relativePath, e.name))]
               ELSE Visited(scan, e)
    /\ UNCHANGED <<served, shuf, nav, req>>

\* lines 58-61: a scanDir has walked its entries and returns; when it is
\* the first, the list is sorted and getAllImages resolves
ScanReturn ==
    /\ scan.pc = "scan"
    /\ Top.pending = {}
    /\ scan' = IF Len(scan.stack) = 1
               THEN [scan EXCEPT !.stack = <<>>, !.pc = "settled",
                                 !.outcome = "resolved",
                                 !.images = ArraySort(scan.images)]
               ELSE [scan EXCEPT !.stack = SubSeq(@, 1, Len(@) - 1)]
    /\ UNCHANGED <<served, shuf, nav, req>>

\* lines 88-139 of the loader: the images of a scan that resolved, and the
\* empty list from the catch when it rejected
LoaderReturns ==
    /\ scan.pc = "settled"
    /\ scan' = [scan EXCEPT !.pc = "loaded",
                            !.loaded = IF scan.outcome = "resolved"
                                       THEN scan.images ELSE <<>>]
    /\ UNCHANGED <<served, shuf, nav, req>>

(***************************************************************************)
(* The listing of one directory (loader of routes/photos.tsx, lines        *)
(* 119-150), one step per directory entry, over the same trees.            *)
(***************************************************************************)
\* the listing of the root of a tree about to begin
ListOf(present, unreadable) ==
    [NoScan EXCEPT !.present = present, !.unreadable = unreadable, !.pc = "list"]

Item(name, type) == [name |-> name, type |-> type]

\* names.map((name) => ({ name, type }))
ItemsOf(names, type) == [i \in 1..Len(names) |-> Item(names[i], type)]

\* ListItems with the files put first
ListItemsFilesFirst(dirs, files) == ItemsOf(files, "file") \o ItemsOf(dirs, "dir")

\* lines 139-142: the directory items, then the file items
ListItems(dirs, files) == ItemsOf(dirs, "dir") \o ItemsOf(files, "file")

\* lines 121-122 and 146-150: readdir of the directory; when it rejects the
\* catch answers with no items
ListStart ==
    /\ scan.pc = "list"
    /\ scan' = IF ScanRoot \in scan.unreadable
               THEN [scan EXCEPT !.pc = "listed", !.outcome = "rejected"]
               ELSE [scan EXCEPT !.pc = "listing",
                                 !.pending = Readdir(scan.present, ScanRoot)]
    /\ UNCHANGED <<served, shuf, nav, req>>

\* lines 127-136: one turn of the loop over the entries, which come in the
\* order of the platform
ListEntry(e) ==
    /\ scan.pc = "listing"
    /\ e \in scan.pending
    /\ scan' = [scan EXCEPT
          !.pending = @ \ {e},
          !.enumerated = Append(@, e),
          !.dirs = IF e.kind = "dir" THEN Append(@, e.name) ELSE @,
          !.files = IF e.kind = "file" /\ IsImageName(e.name)
                    THEN Append(@, e.name) ELSE @]
    /\ UNCHANGED <<served, shuf, nav, req>>

\* lines 138-145: the loop is over and the items are returned
ListReturn ==
    /\ scan.pc = "listing"
    /\ scan.pending = {}
    /\ scan' = [scan EXCEPT !.pc = "listed", !.outcome = "resolved",
                            !.items = ListItems(scan.dirs, scan.files)]
    /\ UNCHANGED <<served, shuf, nav, req>>

(***************************************************************************)
(* The viewers in the browser: the Slideshow component                     *)
(* (routes/slideshow.tsx) and the PhotoView component                      *)
(* (routes/photo-view.tsx), both around components/ImageViewer.tsx.        *)
(***************************************************************************)
\* PrevOf that does not wrap around
PrevOfBelow(prev, length) == prev - 1

\* (prev) => (prev > 0 ? prev - 1 : images.length - 1)
PrevOf(prev, length) == IF prev > 0 THEN prev - 1 ELSE length - 1

\* NextOf that stays on the last image
NextOfStopping(prev, length) == IF prev < length - 1 THEN prev + 1 ELSE prev

\* (prev) => (prev < images.length - 1 ? prev + 1 : 0)
NextOf(prev, length) == IF prev < length - 1 THEN prev + 1 ELSE 0

\* Clamped with the index left as it is
ClampedNever(currentIndex, length) == currentIndex

\* lines 153-155: the index after the clamp effect
Clamped(currentIndex, length) ==
    IF currentIndex >= length /\ length > 0
    THEN IF length - 1 > 0 THEN length - 1 ELSE 0
    ELSE currentIndex

\* images.indexOf(fileName), counted from 0; -1 when it is not in the list
IndexOf(images, name) ==
    IF \E i \in DOMAIN images : images[i] = name
    THEN (CHOOSE i \in DOMAIN images :
             images[i] = name /\ \A j \in 1..(i - 1) : images[j] # name) - 1
    ELSE -1

\* the sorted list of the images on disk, each named by its rank
RECURSIVE SortedOf(_)
SortedOf(ids) ==
    IF ids = {} THEN <<>>
    ELSE LET least == CHOOSE i \in ids : \A j \in ids : i <= j
         IN  <<least>> \o SortedOf(ids \ {least})

NoViewer ==
    [view |-> "none", disk |-> {}, images |-> <<>>, currentIndex |-> 0,
     delay |-> "infinite", timerLength |-> 0, pc |-> "ready", target |-> 0,
     lastOp |-> "none", before |-> 0, applied |-> 0, run |-> -1, nextUrl |-> 0,
     currentPath |-> EmptyStr, fullDirPath |-> EmptyStr, found |-> {}]

\* currentImage = images[currentIndex] is defined: the ImageViewer is
\* rendered
Shown(n) == n.currentIndex >= 0 /\ n.currentIndex < Len(n.images)

\* setCurrentIndex that also takes the last image off the list
setCurrentIndexAndDrop(n, index) ==
    [n EXCEPT !.currentIndex = index,
              !.images = SubSeq(@, 1, IF Len(@) > 0 THEN Len(@) - 1 ELSE 0)]

\* setCurrentIndex: the index is the only state it writes
setCurrentIndex(n, index) == [n EXCEPT !.currentIndex = index]

\* the number of steps forward made from index 0 with nothing else in
\* between, once k more are made (-1: not a run of steps forward from 0)
RunAfter(n, k) ==
    IF n.run < 0 \/ n.run >= Len(n.images) THEN -1 ELSE n.run + k

\* the viewer after an operation has set the index: what it was before,
\* how many updaters were applied, and the run of steps forward
Noted(n, m, op, applied, run) ==
    [m EXCEPT !.lastOp = op, !.before = n.currentIndex, !.applied = applied,
              !.run = run]

\* the updater applied k times
RECURSIVE Times(_, _, _, _)
Times(forward, k, index, length) ==
    IF k = 0 THEN index
    ELSE Times(forward, k - 1,
               IF forward THEN NextOf(index, length) ELSE PrevOf(index, length),
               length)

\* the listeners on window that answer an arrow key: the one of Slideshow
\* and, when the ImageViewer is rendered, the one of the ImageViewer, which
\* calls onPrev or onNext
ArrowListeners(n) == IF Shown(n) THEN 2 ELSE 1

Interactive == nav.view = "slideshow" /\ nav.pc \in {"ready", "submitted"}

\* slideshow.tsx lines 180-181 and ImageViewer.tsx lines 297-298: ArrowRight
KeyArrowRight ==
    /\ Interactive
    /\ nav' = Noted(nav, setCurrentIndex(nav,
                      Times(TRUE, ArrowListeners(nav), nav.currentIndex, Len(nav.images))),
                    "next", ArrowListeners(nav), RunAfter(nav, ArrowListeners(nav)))
    /\ UNCHANGED <<served, shuf, scan, req>>

\* slideshow.tsx lines 178-179 and ImageViewer.tsx lines 295-296: ArrowLeft
KeyArrowLeft ==
    /\ Interactive
    /\ nav' = Noted(nav, setCurrentIndex(nav,
                      Times(FALSE, ArrowListeners(nav), nav.currentIndex, Len(nav.images))),
                    "prev", ArrowListeners(nav), -1)
    /\ UNCHANGED <<served, shuf, scan, req>>

\* lines 182-183: Home
KeyHome ==
    /\ Interactive
    /\ nav' = Noted(nav, setCurrentIndex(nav, 0), "first", 1, 0)
    /\ UNCHANGED <<served, shuf, scan, req>>

\* lines 184-185: End
KeyEnd ==
    /\ Interactive
    /\ nav' = Noted(nav, setCurrentIndex(nav, Len(nav.images) - 1), "last", 1, -1)
    /\ UNCHANGED <<served, shuf, scan, req>>

\* lines 229-231: onPrev, called by the ImageViewer for a wheel or gamepad
\* move to the left
onPrev ==
    /\ Interactive
    /\ Shown(nav)
    /\ nav' = Noted(nav, setCurrentIndex(nav, PrevOf(nav.currentIndex, Len(nav.images))),
                    "prev", 1, -1)
    /\ UNCHANGED <<served, shuf, scan, req>>

\* lines 232-234: onNext, called by the ImageViewer for a wheel or gamepad
\* move to the right
onNext ==
    /\ Interactive
    /\ Shown(nav)
    /\ nav' = Noted(nav, setCurrentIndex(nav, NextOf(nav.currentIndex, Len(nav.images))),
                    "next", 1, RunAfter(nav, 1))
    /\ UNCHANGED <<served, shuf, scan, req>>

\* lines 239-257: a delay button, and the interval made anew by the effect
\* of lines 196-205
setDelay(delay) ==
    /\ Interactive
    /\ Shown(nav)
    /\ nav.delay # delay
    /\ nav' = [nav EXCEPT !.delay = delay, !.lastOp = "delay",
                          !.before = nav.currentIndex, !.applied = 0]
    /\ UNCHANGED <<served, shuf, scan, req>>

\* the effect of lines 196-205 with an interval made for every delay
TimerRunsAlways(delay) == TRUE

\* lines 197-202: the effect makes no interval when the delay is 999999999,
\* the infinite one
TimerRuns(delay) == delay # "infinite"

\* lines 200-202: the interval fires; its callback holds the length the
\* list had when the effect made it
AutoAdvance ==
    /\ nav.view = "slideshow"
    /\ TimerRuns(nav.delay)
    /\ nav' = Noted(nav, setCurrentIndex(nav, NextOf(nav.currentIndex, nav.timerLength)),
                    "auto", 1,
                    IF nav.pc = "reloaded" THEN -1 ELSE RunAfter(nav, 1))
    /\ UNCHANGED <<served, shuf, scan, req>>

\* lines 158-174: handleDelete submits the current image to the action
handleDelete ==
    /\ nav.view = "slideshow"
    /\ nav.pc = "ready"
    /\ Shown(nav)
    /\ nav' = [nav EXCEPT !.pc = "submitted",
                          !.target = nav.images[nav.currentIndex + 1],
                          !.lastOp = "delete", !.before = nav.currentIndex,
                          !.applied = 0, !.run = -1]
    /\ UNCHANGED <<served, shuf, scan, req>>

\* the action has removed the file and the loader has run again: the
\* component is rendered with the new list, its state kept
Revalidated ==
    /\ nav.view = "slideshow"
    /\ nav.pc = "submitted"
    /\ nav' = [nav EXCEPT !.pc = "reloaded",
                          !.disk = @ \ {nav.target},
                          !.images = SortedOf(nav.disk \ {nav.target}),
                          !.lastOp = "reload", !.before = nav.currentIndex,
                          !.applied = 0, !.run = -1]
    /\ UNCHANGED <<served, shuf, scan, req>>

\* lines 151-156 and 196-205: the effects after the render with the new
\* list: the index is clamped and the interval is made anew
Effects ==
    /\ nav.view = "slideshow"
    /\ nav.pc = "reloaded"
    /\ nav' = [nav EXCEPT !.pc = "ready",
                          !.currentIndex = Clamped(@, Len(nav.images)),
                          !.timerLength = Len(nav.images),
                          !.lastOp = "effects", !.before = nav.currentIndex,
                          !.applied = 0, !.run = -1]
    /\ UNCHANGED <<served, shuf, scan, req>>

\* photo-view.tsx lines 68 and 94-115: navigate to the image at index
\* target of the list; the loader finds the index of its name
Navigated(n, target, op) ==
    Noted(n, setCurrentIndex(n,
               IF target >= 0 /\ target < Len(n.images)
               THEN IndexOf(n.images, n.images[target + 1]) ELSE -1),
          op, 1, IF op = "first" THEN 0 ELSE IF op = "next" THEN RunAfter(n, 1) ELSE -1)

\* photo-view.tsx lines 94-98 and 109-111: handlePrev
handlePrev ==
    /\ nav.view = "photo"
    /\ Shown(nav)
    /\ nav' = Navigated(nav, PrevOf(nav.currentIndex, Len(nav.images)), "prev")
    /\ UNCHANGED <<served, shuf, scan, req>>

\* photo-view.tsx lines 100-103 and 113-115: handleNext
handleNext ==
    /\ nav.view = "photo"
    /\ Shown(nav)
    /\ nav' = Navigated(nav, NextOf(nav.currentIndex, Len(nav.images)), "next")
    /\ UNCHANGED <<served, shuf, scan, req>>

\* photo-view.tsx lines 135-142: Home and End
PhotoKeyHome ==
    /\ nav.view = "photo"
    /\ nav' = Navigated(nav, 0, "first")
    /\ UNCHANGED <<served, shuf, scan, req>>

PhotoKeyEnd ==
    /\ nav.view = "photo"
    /\ nav' = Navigated(nav, Len(nav.images) - 1, "last")
    /\ UNCHANGED <<served, shuf, scan, req>>

\* photo-view.tsx lines 117-128 with every list sent to the next image
DeleteTargetAlwaysNext(images, currentIndex) ==
    images[NextOf(currentIndex, Len(images)) + 1]

\* photo-view.tsx lines 100-107 and 117-128: the url handleDelete appends
\* as "nextUrl": the view of the next image when the list holds more than
\* one image, the listing of the directory (written 0) otherwise
DeleteTarget(images, currentIndex) ==
    IF Len(images) > 1
    THEN images[NextOf(currentIndex, Len(images)) + 1]
    ELSE 0

\* photo-view.tsx lines 117-128 and 326-330 of ImageViewer.tsx: handleDelete
\* of the single-image view submits the delete with the url to go to
handleDeletePhoto ==
    /\ nav.view = "photo"
    /\ nav.pc = "ready"
    /\ Shown(nav)
    /\ nav' = [nav EXCEPT !.pc = "submitted",
                          !.target = nav.images[nav.currentIndex + 1],
                          !.nextUrl = DeleteTarget(nav.images, nav.currentIndex),
                          !.lastOp = "delete", !.before = nav.currentIndex,
                          !.applied = 0, !.run = -1]
    /\ UNCHANGED <<served, shuf, scan, req>>

\* photo-view.tsx lines 20-32 and 41-85: the action has removed the file
\* and answered with the redirect to nextUrl; the loader of the url gone to
\* lists the directory again and finds the index of the image
PhotoDeleted ==
    /\ nav.view = "photo"
    /\ nav.pc = "submitted"
    /\ nav' = [nav EXCEPT !.pc = "ready",
                          !.view = IF nav.nextUrl = 0 THEN "listing" ELSE "photo",
                          !.disk = @ \ {nav.target},
                          !.images = IF nav.nextUrl = 0 THEN <<>>
                                     ELSE SortedOf(nav.disk \ {nav.target}),
                          !.currentIndex =
                              IF nav.nextUrl = 0 THEN 0
                              ELSE IndexOf(SortedOf(nav.disk \ {nav.target}), nav.nextUrl),
                          !.lastOp = "redirected", !.before = nav.currentIndex,
                          !.applied = 0, !.run = -1]
    /\ UNCHANGED <<served, shuf, scan, req>>

\* photo-view.tsx lines 33-35: unlink has thrown and the action answers
\* "Delete failed": no redirect is made and the view stays on the image
PhotoDeleteFailed ==
    /\ nav.view = "photo"
    /\ nav.pc = "submitted"
    /\ nav' = [nav EXCEPT !.pc = "ready",
                          !.lastOp = "deleteFailed", !.before = nav.currentIndex,
                          !.applied = 0, !.run = -1]
    /\ UNCHANGED <<served, shuf, scan, req>>

\* the component just mounted: useState(0) in the slideshow, the index of
\* the file in the single-image view
Mounted(view, n, index) ==
    [NoViewer EXCEPT !.view = view, !.disk = 1..n, !.images = SortedOf(1..n),
                     !.currentIndex = index, !.timerLength = n,
                     !.run = IF index = 0 THEN 0 ELSE -1]

(***************************************************************************)
(* The slideshow loader's handling of the random and seed parameters       *)
(* (routes/slideshow.tsx, lines 88-139).  A parameter is null or the       *)
(* string of its characters; a digit is written as its value 0..9 and any  *)
(* other character as its code unit.                                       *)
(***************************************************************************)
\* url.searchParams.get("seed") of a url without the parameter
Null == <<-1>>

\* !seedParam: null and the empty string are falsy
Falsy(param) == param = Null \/ param = <<>>

\* w div 10 for a 32-bit word
WDiv10(w) == <<w[1] \div 10, ((w[1] % 10) * Half + w[2]) \div 10>>

\* w mod 10
WMod10(w) == ((w[1] % 10) * Half + w[2]) % 10

\* String(seed) of an integer seed: its decimal digits, "0" for 0
RECURSIVE DecimalString(_)
DecimalString(w) ==
    IF WDiv10(w) = <<0, 0>> THEN <<WMod10(w)>>
    ELSE Append(DecimalString(WDiv10(w)), WMod10(w))

IsDigits(str) == str # <<>> /\ \A i \in DOMAIN str : str[i] >= 0 /\ str[i] <= 9

\* the value of a string of digits, modulo 2^32
RECURSIVE DigitsValue(_)
DigitsValue(str) ==
    IF str = <<>> THEN <<0, 0>>
    ELSE LET rest == DigitsValue(SubSeq(str, 1, Len(str) - 1))
         IN  WAdd(Word(rest[1] * 10 + (rest[2] * 10) \div Half, rest[2] * 10),
                  <<0, str[Len(str)]>>)

\* lines 105 and 117: (Number(seedParam) || 0) >>> 0, for a string of at
\* most 15 digits or one that is no number
SeedOf(seedParam) == IF IsDigits(seedParam) THEN DigitsValue(seedParam) ELSE <<0, 0>>

\* line 97: Math.floor(Math.random() * 0xffffffff) for the draw
\* m / 2^RandomBits: m * (2^32 - 1) is (m - 1) * 2^32 + (2^32 - m), shifted
\* right by RandomBits; the halves of the result are not reduced
SeedFromRandom(m) ==
    IF m = 0 THEN <<0, 0>>
    ELSE <<((m - 1) * Half + (Half - 1)) \div (2 ^ RandomBits),
           ((((m - 1) * Half + (Half - 1)) % (2 ^ RandomBits)) * Half + (Half - m))
              \div (2 ^ RandomBits)>>

Url(random, seedParam) == [random |-> random, seedParam |-> seedParam]

\* the seed parameters a url is opened with: none, an empty one, a number,
\* a text that is no number
SeedParams == {Null, <<>>, <<5>>, <<120>>}

NoNavigation ==
    [pc |-> "off", url |-> Url(FALSE, Null), asked |-> Url(FALSE, Null),
     dirFound |-> FALSE, scanned |-> FALSE, response |-> "none",
     order |-> "none", seed |-> <<0, 0>>, drawn |-> <<0, 0>>, redirects |-> 0,
     deletes |-> 0, shownUrl |-> Url(FALSE, Null), shownOrder |-> "none",
     shownSeed |-> <<0, 0>>]

\* the browser opens the slideshow at a url; the directory resolves or not
Opened(random, seedParam, dirFound) ==
    [NoNavigation EXCEPT !.pc = "request", !.url = Url(random, seedParam),
                         !.dirFound = dirFound]

\* NeedsSeed that does not look at the seed parameter
NeedsSeedAlways(random, seedParam) == random

\* line 96: random && !seedParam
NeedsSeed(random, seedParam) == random /\ Falsy(seedParam)

\* lines 79-139 for the request at hand: no directory, or a scan that
\* fails, gives the empty list; else the redirect with a new seed, the
\* shuffled order or the sorted one
Answer(r, scanned, m) ==
    IF ~r.dirFound \/ ~scanned
    THEN [r EXCEPT !.pc = "done", !.response = "data", !.order = "empty"]
    ELSE IF NeedsSeed(r.url.random, r.url.seedParam)
    THEN [r EXCEPT !.pc = "redirected", !.response = "redirect",
                   !.drawn = SeedFromRandom(m),
                   !.url = Url(r.url.random, DecimalString(SeedFromRandom(m))),
                   !.redirects = @ + 1]
    ELSE IF r.url.random /\ ~Falsy(r.url.seedParam)
    THEN [r EXCEPT !.pc = "done", !.response = "data", !.order = "shuffled",
                   !.seed = SeedOf(r.url.seedParam)]
    ELSE [r EXCEPT !.pc = "done", !.response = "data", !.order = "sorted"]

\* the loader serves the request; getAllImages resolves or rejects, and m
\* is what Math.random() returns
loader_slideshow(scanned, m) ==
    /\ req.pc = "request"
    /\ req.redirects < 3
    /\ req' = Answer([req EXCEPT !.asked = req.url, !.scanned = scanned], scanned, m)
    /\ UNCHANGED <<served, shuf, scan, nav>>

\* the browser follows the redirect: a request for the url it was given
FollowRedirect ==
    /\ req.pc = "redirected"
    /\ req' = [req EXCEPT !.pc = "request", !.response = "none"]
    /\ UNCHANGED <<served, shuf, scan, nav>>

\* ActionUrl without the search parameters: the form is posted to the bare
\* route
ActionUrlBare(url) == Url(FALSE, Null)

\* lines 166-169: new URLSearchParams(searchParams), written into the action
\* url as "?" + params.toString(): the parameters of the url being shown
ActionUrl(url) == Url(url.random, url.seedParam)

\* lines 158-173, Slideshow handleDelete, for an order that holds an image:
\* the form is submitted to the action url, and once the action has
\* answered the loader is asked again at that url
submitDelete ==
    /\ req.pc = "done"
    /\ req.order \in {"shuffled", "sorted"}
    /\ req.deletes < MaxDeletes
    /\ req' = [req EXCEPT !.pc = "request", !.response = "none",
                          !.url = ActionUrl(req.url),
                          !.deletes = @ + 1,
                          !.shownUrl = req.url,
                          !.shownOrder = req.order,
                          !.shownSeed = req.seed]
    /\ UNCHANGED <<served, shuf, scan, nav>>

(***************************************************************************)
(* The slideshow over the filesystem of the libraries: what the loader     *)
(* scans and the logical paths the component builds (routes/slideshow.tsx, *)
(* lines 64-90, 158-165 and 223-227).  The images are kept as the set of   *)
(* their relative paths: where a path resolves does not depend on the      *)
(* order of the list.                                                      *)
(***************************************************************************)
\* lines 37-62, getAllImages(dirPath) on the filesystem f: the relative
\* paths of the regular files with an image name beneath the directory
getAllImagesIn(f, dirLoc) ==
    {SubSeq(loc, Len(dirLoc) + 1, Len(loc)) :
        loc \in {l \in DOMAIN f : /\ f[l].kind = "file"
                                  /\ Len(l) > Len(dirLoc)
                                  /\ IsPrefix(dirLoc, l)
                                  /\ IsImageName(Chars(l[Len(l)]))}}

\* FullDirPathOf that takes the last library for the root
FullDirPathOfLastLibrary(resolved) ==
    IF resolved.kind = "entry" THEN resolved.fullPath
    ELSE IF resolved.kind = "root" /\ Len(resolved.photoDirs) > 0
    THEN resolved.photoDirs[Len(resolved.photoDirs)]
    ELSE EmptyStr

\* lines 68-77: the directory scanned: that of the entry, and the first
\* library for the root
FullDirPathOf(resolved) ==
    IF resolved.kind = "entry" THEN resolved.fullPath
    ELSE IF resolved.kind = "root" /\ Len(resolved.photoDirs) > 0
    THEN resolved.photoDirs[1]
    ELSE EmptyStr

\* lines 79-90 and 131-139: no images without a directory, or when the
\* scan fails because the directory cannot be read
ImagesLoaded(f, fullDirPath) ==
    IF fullDirPath = EmptyStr THEN {}
    ELSE IF NodeAt(f, Canonical(fullDirPath)).kind # "dir" THEN {}
    ELSE getAllImagesIn(f, Canonical(fullDirPath))

\* lines 159-161 and 224-226:
\* currentPath ? `${currentPath}/${currentImage}` : currentImage
ImagePath(currentPath, currentImage) ==
    IF currentPath # EmptyStr THEN currentPath \o currentImage ELSE currentImage

\* lines 64-90 and 125-130: the loader of the slideshow for the splat of
\* the url; the component is rendered with what it returns
loader_slideshow_scan(splat) ==
    /\ nav.view = "none"
    /\ nav' = [NoViewer EXCEPT
          !.view = "slideshow",
          !.currentPath = StripOneTrailingSlash(splat),
          !.fullDirPath =
              FullDirPathOf(resolvePhotoPath(fs, StripOneTrailingSlash(splat))),
          !.found =
              ImagesLoaded(fs, FullDirPathOf(resolvePhotoPath(fs, StripOneTrailingSlash(splat))))]
    /\ UNCHANGED <<served, shuf, scan, req>>

\* the list shown is the one the loader would return now
ListIsCurrent == nav.found = ImagesLoaded(fs, nav.fullDirPath)

\* the loader runs again once an action has been answered
RevalidatedScan ==
    /\ nav.view = "slideshow"
    /\ ~ListIsCurrent
    /\ nav' = [nav EXCEPT !.found = ImagesLoaded(fs, nav.fullDirPath)]
    /\ UNCHANGED <<served, shuf, scan, req>>

\* the directories a slideshow is opened on: the root, a library by its
\* alias, a directory of a library, with and without trailing slashes
SlideSplats ==
    {EmptyStr, <<"", "">>, <<"photos">>, <<"photos", "">>, <<"pics">>,
     <<"photos", "pics">>, <<"nowhere">>}

(***************************************************************************)
(* Specifications.                                                         *)
(***************************************************************************)
NoCache == [k \in {} |-> EmptyContent]

\* the entry points that run to completion, over every configuration and
\* every set of files present
Init ==
    /\ photoDirsEnv \in EnvChoices
    /\ fs \in {FsWith(present) : present \in SUBSET Files}
    /\ cache = NoCache
    /\ last = NoRequest
    /\ thumb = [r \in Slots |-> IdleSlot]
    /\ shuf = NoShuffle
    /\ scan = NoScan
    /\ nav = NoViewer
    /\ req = NoNavigation

\* a request is taken when the one before it has been answered
Answered == last.op = "none"

Next ==
    \/ /\ Answered
       /\ \E urlPath \in UrlPaths, reach \in BOOLEAN, authed \in BOOLEAN :
             loader_api_photos(urlPath, reach, authed)
    \/ /\ Answered
       /\ \E urlPath \in UrlPaths, authed \in BOOLEAN :
             loader_api_photos_open(urlPath, authed)
    \/ /\ Answered
       /\ \E urlPath \in UrlPaths, intent \in Intents, hasNextUrl \in BOOLEAN :
             action_photo_view(urlPath, intent, hasNextUrl)
    \/ /\ Answered
       /\ \E filePath \in UrlPaths, intent \in Intents :
             action_slideshow(filePath, intent)
    \/ Respond

Spec == Init /\ [][Next]_vars

\* the raw fetch, over every configuration, with at most one of the files
\* present
InitFetch ==
    /\ photoDirsEnv \in EnvChoices
    /\ fs \in {FetchFsWith(present) :
                 present \in {{}} \cup {{FetchFile(name)} : name \in FetchNames}}
    /\ cache = NoCache
    /\ last = NoRequest
    /\ thumb = [r \in Slots |-> IdleSlot]
    /\ shuf = NoShuffle
    /\ scan = NoScan
    /\ nav = NoViewer
    /\ req = NoNavigation

NextFetch ==
    \/ /\ Answered
       /\ \E urlPath \in FetchUrls, reach \in BOOLEAN, authed \in BOOLEAN :
             loader_api_photos(urlPath, reach, authed)
    \/ /\ Answered
       /\ \E urlPath \in FetchUrls, authed \in BOOLEAN :
             loader_api_photos_open(urlPath, authed)
    \/ Respond

SpecFetch == InitFetch /\ [][NextFetch]_vars

\* the entry points that resolve a path, over paths with and without an
\* alias
InitAlias ==
    /\ photoDirsEnv \in EnvChoices
    /\ fs \in {AliasFsWith(present) : present \in SUBSET AliasFiles}
    /\ cache = NoCache
    /\ last = NoRequest
    /\ thumb = [r \in Slots |-> IdleSlot]
    /\ shuf = NoShuffle
    /\ scan = NoScan
    /\ nav = NoViewer
    /\ req = NoNavigation

NextAlias ==
    \/ /\ Answered
       /\ \E urlPath \in AliasUrls, reach \in BOOLEAN, authed \in BOOLEAN :
             loader_api_photos(urlPath, reach, authed)
    \/ /\ Answered
       /\ \E urlPath \in AliasUrls, intent \in Intents, hasNextUrl \in BOOLEAN :
             action_photo_view(urlPath, intent, hasNextUrl)
    \/ /\ Answered
       /\ \E filePath \in AliasUrls, intent \in Intents :
             action_slideshow(filePath, intent)
    \/ Respond

SpecAlias == InitAlias /\ [][NextAlias]_vars

\* a slideshow opened on a directory, its images fetched and deleted by the
\* paths the component builds
InitSlide ==
    /\ photoDirsEnv \in EnvChoices
    /\ fs \in {AliasFsWith(present) : present \in SUBSET AliasFiles}
    /\ cache = NoCache
    /\ last = NoRequest
    /\ thumb = [r \in Slots |-> IdleSlot]
    /\ shuf = NoShuffle
    /\ scan = NoScan
    /\ nav = NoViewer
    /\ req = NoNavigation

NextSlide ==
    \/ /\ Answered
       /\ \E splat \in SlideSplats : loader_slideshow_scan(splat)
    \/ /\ Answered
       /\ ListIsCurrent
       /\ \E currentImage \in nav.found, authed \in BOOLEAN :
             loader_api_photos_open(ImagePath(nav.currentPath, currentImage), authed)
    \/ /\ Answered
       /\ ListIsCurrent
       /\ \E currentImage \in nav.found :
             action_slideshow(ImagePath(nav.currentPath, currentImage), "delete")
    \/ Respond
    \/ /\ Answered
       /\ RevalidatedScan

SpecSlide == InitSlide /\ [][NextSlide]_vars

\* thumbnail requests served together, over one library
InitThumb ==
    /\ photoDirsEnv = <<LibPhotos>>
    /\ fs = FsWith({FilePhotosA})
    /\ cache = NoCache
    /\ last = NoRequest
    /\ thumb = [r \in Slots |-> IdleSlot]
    /\ shuf = NoShuffle
    /\ scan = NoScan
    /\ nav = NoViewer
    /\ req = NoNavigation

ThumbStep(r) ==
    \/ T_Stat(r)
    \/ T_ReadCache(r)
    \/ T_Generate(r)
    \/ T_Write(r)
    \/ T_Fail(r)
    \/ T_Reread(r)
    \/ T_Finish(r)

NextThumb ==
    \/ \E r \in Slots, urlPath \in ThumbUrls, reach \in BOOLEAN, authed \in BOOLEAN :
          T_Begin(r, urlPath, reach, authed)
    \/ \E r \in Slots : ThumbStep(r)
    \/ \E m \in 1..MaxMtime : Touch(FilePhotosA, m)

SpecThumb == InitThumb /\ [][NextThumb]_vars

\* the files whose cache keys are compared: the name of one is the name of
\* the other followed by a digit
FilePhotosX == <<"data", "photos", "x">>
FilePhotosX1 == <<"data", "photos", "x1">>

KeyFsWith(m, n) ==
    [loc \in Dirs \cup {FilePhotosX, FilePhotosX1} |->
        IF loc \in Dirs THEN DirNode
        ELSE IF loc = FilePhotosX THEN FileNode(m) ELSE FileNode(n)]

KeyUrls == {<<"photos", "x">>, <<"photos", "x1">>}

\* thumbnail requests for two files, over their modification times
InitKey ==
    /\ photoDirsEnv = <<LibPhotos>>
    /\ fs \in {KeyFsWith(m, n) : m \in 1..MaxKeyMtime, n \in 1..MaxMtime}
    /\ cache = NoCache
    /\ last = NoRequest
    /\ thumb = [r \in Slots |-> IdleSlot]
    /\ shuf = NoShuffle
    /\ scan = NoScan
    /\ nav = NoViewer
    /\ req = NoNavigation

NextKey ==
    \/ \E r \in Slots, urlPath \in KeyUrls :
          (\A s \in Slots \ {r} : thumb[s].pc \in {"idle", "done"})
             /\ T_Begin(r, urlPath, TRUE, TRUE)
    \/ \E r \in Slots : ThumbStep(r)

SpecKey == InitKey /\ [][NextKey]_vars

\* thumbnail requests served one after the other
NoneInFlight(r) == \A s \in Slots \ {r} : thumb[s].pc \in {"idle", "done"}

NextThumbSeq ==
    \/ \E r \in Slots, urlPath \in ThumbUrls, reach \in BOOLEAN, authed \in BOOLEAN :
          NoneInFlight(r) /\ T_Begin(r, urlPath, reach, authed)
    \/ \E r \in Slots : ThumbStep(r)
    \/ \E m \in 1..MaxMtime : Touch(FilePhotosA, m)

SpecThumbSeq == InitThumb /\ [][NextThumbSeq]_vars

\* the slideshow order, over both modes and every seed, list length and
\* deleted image
InitShuffle ==
    /\ photoDirsEnv = <<LibPhotos>>
    /\ fs = FsWith({FilePhotosA})
    /\ cache = NoCache
    /\ last = NoRequest
    /\ thumb = [r \in Slots |-> IdleSlot]
    /\ scan = NoScan
    /\ nav = NoViewer
    /\ req = NoNavigation
    /\ \E random \in BOOLEAN, seed \in 0..MaxSeed, n \in 0..MaxItems :
          \E k \in 0..n :
             shuf = [NoShuffle EXCEPT !.random = random, !.seed = seed,
                                      !.input = SortedImages(n), !.removed = k]

NextShuffle == \E r \in Runs : ShuffleStart(r) \/ ShuffleTurn(r)

SpecShuffle == InitShuffle /\ [][NextShuffle]_vars

\* one scan of every tree, with every set of its directories unreadable
InitScan ==
    /\ photoDirsEnv = <<LibPhotos>>
    /\ fs = FsWith({FilePhotosA})
    /\ cache = NoCache
    /\ last = NoRequest
    /\ thumb = [r \in Slots |-> IdleSlot]
    /\ shuf = NoShuffle
    /\ nav = NoViewer
    /\ req = NoNavigation
    /\ \E present \in Trees :
          \E unreadable \in SUBSET DirsOf(present) :
             scan = ScanOf(present, unreadable)

NextScan ==
    \/ ScanStart
    \/ \E e \in EntryChoices : ScanEntry(e)
    \/ ScanReturn
    \/ LoaderReturns

SpecScan == InitScan /\ [][NextScan]_vars

\* one listing of the root of every tree, readable or not
InitList ==
    /\ photoDirsEnv = <<LibPhotos>>
    /\ fs = FsWith({FilePhotosA})
    /\ cache = NoCache
    /\ last = NoRequest
    /\ thumb = [r \in Slots |-> IdleSlot]
    /\ shuf = NoShuffle
    /\ nav = NoViewer
    /\ req = NoNavigation
    /\ \E present \in Trees :
          \E unreadable \in SUBSET {ScanRoot} :
             scan = ListOf(present, unreadable)

NextList ==
    \/ ListStart
    \/ \E e \in EntryChoices : ListEntry(e)
    \/ ListReturn

SpecList == InitList /\ [][NextList]_vars

\* a viewer over every order of at most MaxShown images
InitNav ==
    /\ photoDirsEnv = <<LibPhotos>>
    /\ fs = FsWith({FilePhotosA})
    /\ cache = NoCache
    /\ last = NoRequest
    /\ thumb = [r \in Slots |-> IdleSlot]
    /\ shuf = NoShuffle
    /\ scan = NoScan
    /\ req = NoNavigation
    /\ \E n \in 0..MaxShown :
          \/ nav = Mounted("slideshow", n, 0)
          \/ \E index \in -1..(n - 1) : nav = Mounted("photo", n, index)

NextNav ==
    \/ KeyArrowRight
    \/ KeyArrowLeft
    \/ KeyHome
    \/ KeyEnd
    \/ onPrev
    \/ onNext
    \/ \E delay \in {"infinite", "finite"} : setDelay(delay)
    \/ AutoAdvance
    \/ handleDelete
    \/ Revalidated
    \/ Effects
    \/ handlePrev
    \/ handleNext
    \/ PhotoKeyHome
    \/ PhotoKeyEnd
    \/ handleDeletePhoto
    \/ PhotoDeleted
    \/ PhotoDeleteFailed

SpecNav == InitNav /\ [][NextNav]_vars

\* the viewer with the interval of setInterval firing for as long as there
\* is one
SpecNavTimer == InitNav /\ [][NextNav]_vars /\ WF_vars(AutoAdvance)

\* one navigation to the slideshow, over every url
InitSeed ==
    /\ photoDirsEnv = <<LibPhotos>>
    /\ fs = FsWith({FilePhotosA})
    /\ cache = NoCache
    /\ last = NoRequest
    /\ thumb = [r \in Slots |-> IdleSlot]
    /\ shuf = NoShuffle
    /\ scan = NoScan
    /\ nav = NoViewer
    /\ \E random \in BOOLEAN, seedParam \in SeedParams, dirFound \in BOOLEAN :
          req = Opened(random, seedParam, dirFound)

NextSeed ==
    \/ \E scanned \in BOOLEAN, m \in 0..(2 ^ RandomBits - 1) :
          loader_slideshow(scanned, m)
    \/ FollowRedirect
    \/ submitDelete

SpecSeed == InitSeed /\ [][NextSeed]_vars

(***************************************************************************)
(* Properties.                                                             *)
(***************************************************************************)
\* the logical path of the request served, as resolvePhotoPath cleans it
LastClean == TrimSlashes(last.urlPath)

\* the request served went through resolvePhotoPath
LastResolved == last.op # "none" /\ last.result \notin {"unauthorized", "ignored"}

\* C1: every filesystem call an entry point makes (the existence probes of
\* the resolver, stat, readFile, unlink) is on a path that lies, once made
\* canonical, inside the root of the library it was built from.
C1_AccessStaysInsideRoot ==
    \A i \in DOMAIN last.accessed :
        WithinRoot(last.accessed[i].base, last.accessed[i].path)

\* C2: a caller for whom the authorization predicate is false gets the
\* unauthorized answer from the file loader, and no filesystem call is made
\* for the request, whether or not the request object can be reached.
C2_UnauthorizedDoesNoFilesystemWork ==
    (last.op \in {"api.photos", "api.photos.open"} /\ ~last.authorized)
        => (last.result = "unauthorized" /\ last.accessed = <<>>)

\* the libraries whose alias is the first segment of the path served
LastAliasLibraries ==
    {d \in 1..Len(PhotoDirs) : PathBasename(PhotoDirs[d]) = LastClean[1]}

\* C3: when the first segment of the logical path is the alias of a library,
\* resolve returns an entry of that library and of no other; relativePath is
\* the rest of the segments, and the physical path is the location reached
\* from the library's root along relativePath.
C3_AliasSelectsItsLibrary ==
    (LastResolved /\ LastClean # EmptyStr /\ LastAliasLibraries # {})
        => /\ last.resolved.kind = "entry"
           /\ \A d \in LastAliasLibraries : last.resolved.baseDir = PhotoDirs[d]
           /\ IF Len(LastClean) = 1
              THEN last.resolved.relativePath = EmptyStr
              ELSE <<LastClean[1]>> \o last.resolved.relativePath = LastClean
           /\ Canonical(last.resolved.fullPath)
                = NormSegs(last.resolved.baseDir \o last.resolved.relativePath,
                           <<>>, FALSE)

\* C3 witness: a path of two segments is resolved by its alias into the
\* second of two libraries
C3_Witness ==
    /\ LastResolved
    /\ Len(PhotoDirs) = 2
    /\ LastClean = <<"pics", "a.jpg">>
    /\ last.resolved.baseDir = LibPics
    /\ last.resolved.relativePath = <<"a.jpg">>

BothLoadsDone == \A r \in Runs : shuf.run[r].pc = "done"

\* C4: with the same seed, the order shuffled from the list without one image
\* is the order shuffled from the whole list with that image taken out: the
\* images that remain keep their relative order.
C4_DeleteKeepsRelativeOrder ==
    (BothLoadsDone /\ shuf.removed # 0)
        => Order(2) = Without(Order(1), shuf.removed)

\* C5: two loads of the same sorted list with the same seed return the same
\* order, however their steps interleave.
C5_SameSeedSameOrder ==
    (BothLoadsDone /\ shuf.removed = 0) => Order(1) = Order(2)

\* C5 witness: two finished loads of a list of at least three images, whose
\* order is not the sorted one
C5_Witness ==
    /\ BothLoadsDone
    /\ shuf.removed = 0
    /\ Len(shuf.input) >= 3
    /\ Order(1) # shuf.input

\* slot r served the request that followed the one slot s served, with no
\* other request in between, and both are complete
Consecutive(s, r) ==
    /\ thumb[r].pc = "done"
    /\ thumb[s].pc = "done"
    /\ thumb[r].pred = s

\* C6: of two consecutive thumbnail calls for a file whose path and
\* modification time are the same, the first of which returned a thumbnail,
\* the second returns the same bytes, and it neither generates nor writes:
\* it is served from the cache file.
C6_SecondCallServedFromCache ==
    \A s \in Slots, r \in Slots :
        (Consecutive(s, r) /\ thumb[s].status = 200
           /\ thumb[r].key = thumb[s].key /\ thumb[r].key # NoKey)
        => /\ thumb[r].status = 200
           /\ thumb[r].body = thumb[s].body
           /\ ~thumb[r].generated

\* C6 witness: a call that generated the thumbnail, followed by a call for
\* the same file and modification time
C6_Witness ==
    \E s \in Slots, r \in Slots :
        /\ Consecutive(s, r)
        /\ thumb[s].status = 200
        /\ thumb[s].generated
        /\ thumb[r].key = thumb[s].key
        /\ thumb[r].status = 200

\* slot r served the call that followed slot s's for the same file, the
\* file's modification time having changed in between; both returned a
\* thumbnail
AfterTouch(s, r) ==
    /\ Consecutive(s, r)
    /\ thumb[s].status = 200
    /\ thumb[r].status = 200
    /\ thumb[r].resolved.fullPath = thumb[s].resolved.fullPath
    /\ thumb[r].mtime # thumb[s].mtime

\* C7 as stated: after a change of the modification time the next call
\* creates a cache entry under a new key, and the previous entry is still
\* there.
C7_NextCallCreatesNewEntry ==
    \A s \in Slots, r \in Slots :
        AfterTouch(s, r)
        => /\ thumb[r].key # thumb[s].key
           /\ thumb[r].generated
           /\ Hit(cache, thumb[r].key)
           /\ Hit(cache, thumb[s].key)

\* C7 as amended: after a change of the modification time the next call uses
\* a key different from the previous one, under which a cache entry exists
\* once the call is complete (created by the call, unless the time went back
\* to one cached before), and the previous entry is still there.
C7_NextCallUsesNewKey ==
    \A s \in Slots, r \in Slots :
        AfterTouch(s, r)
        => /\ thumb[r].key # thumb[s].key
           /\ Hit(cache, thumb[r].key)
           /\ Hit(cache, thumb[s].key)

\* C7 witness: the call after the change generated a thumbnail under its own
\* key
C7_Witness ==
    \E s \in Slots, r \in Slots :
        /\ AfterTouch(s, r)
        /\ thumb[r].generated
        /\ thumb[s].generated

\* C8: while a request is writing the thumbnail of a key, a request that
\* finds the cache file of that key present reads a complete thumbnail.
C8_ReaderSeesCompleteFile ==
    \A w \in Slots, r \in Slots :
        (/\ thumb[w].pc = "write"
         /\ thumb[r].pc = "done"
         /\ thumb[r].status = 200
         /\ ~thumb[r].generated
         /\ thumb[r].key = thumb[w].key)
        => Complete(thumb[r].body)

\* C9: when two requests for the same key both missed the cache, both
\* generated the thumbnail and both answered with one, each answer is a
\* complete thumbnail and so is the cache file.
C9_BothGeneratorsAnswerComplete ==
    \A r \in Slots, s \in Slots :
        (/\ r # s
         /\ thumb[r].pc = "done" /\ thumb[s].pc = "done"
         /\ thumb[r].generated /\ thumb[s].generated
         /\ thumb[r].status = 200 /\ thumb[s].status = 200
         /\ thumb[r].key = thumb[s].key)
        => /\ Complete(thumb[r].body)
           /\ Complete(thumb[s].body)
           /\ Complete(cache[thumb[r].key])

\* C10: a thumbnail request that is let through and whose path resolves to
\* no entry, or to a physical path that does not exist or is not a regular
\* file, is answered not-found.
C10_MissingPathIsNotFound ==
    \A r \in Slots :
        (/\ thumb[r].pc = "done"
         /\ thumb[r].result # "unauthorized"
         /\ (thumb[r].resolved.kind # "entry" \/ thumb[r].statKind # "file"))
        => thumb[r].result = "notfound"

\* slot s completes with the error of a failed generation in this step
FailsNow(s) ==
    /\ thumb[s].pc # "done"
    /\ thumb'[s].pc = "done"
    /\ thumb'[s].generated
    /\ thumb'[s].result = "error"

\* C11: a request whose generation fails is answered with the error and
\* leaves no cache file under its key, and the request that follows a failed
\* one for the same unchanged file is not served from the cache: it
\* generates again.
C11_FailureLeavesNoCacheEntry ==
    /\ [][\A s \in Slots :
            FailsNow(s) => (thumb'[s].status = 500 /\ ~Hit(cache', thumb'[s].key))]_vars
    /\ [](\A s \in Slots, r \in Slots :
            (Consecutive(s, r) /\ thumb[s].generated /\ thumb[s].result = "error"
               /\ thumb[r].key = thumb[s].key)
            => thumb[r].generated)

\* C12: a cache file that has been written completely is never changed or
\* removed afterwards, whatever requests are served, one after the other or
\* together.
C12_CacheFileImmutable ==
    [][\A k \in DOMAIN cache :
          Complete(cache[k]) => (k \in DOMAIN cache' /\ cache'[k] = cache[k])]_vars

DeleteOps == {"view.action", "slideshow.action"}

\* a delete request is served in this step
DeleteServed ==
    /\ last.op = "none"
    /\ last'.op \in DeleteOps
    /\ last'.result # "ignored"

\* the filesystem once the regular file at physical path p, if there is
\* one, is gone, all else as in f
FileRemoved(f, p) ==
    [loc \in DOMAIN f |->
        IF loc = Canonical(p) /\ f[loc].kind = "file"
        THEN [kind |-> "none", mtime |-> 0]
        ELSE f[loc]]

\* C13: a delete resolves its logical path and removes the file at the
\* physical path that results, and nothing else; when the path resolves to
\* the root, or to nothing because no library is configured, no file is
\* removed.
C13_DeleteRemovesResolvedFileOnly ==
    [][DeleteServed =>
          /\ last'.resolved = resolvePhotoPath(fs, last'.urlPath)
          /\ fs' = IF last'.resolved.kind = "entry"
                   THEN FileRemoved(fs, last'.resolved.fullPath)
                   ELSE fs]_vars

\* C13 witness: a delete has removed the file its path resolved to, another
\* file being left in place
C13_Witness ==
    /\ last.op \in DeleteOps
    /\ last.result \in {"ok", "redirect"}
    /\ last.resolved.kind = "entry"
    /\ fs[Canonical(last.resolved.fullPath)].kind = "none"
    /\ \E loc \in Files : fs[loc].kind = "file"

\* the path of an entry relative to the scan root, as a string
RECURSIVE JoinNames(_)
JoinNames(names) ==
    IF Len(names) = 1 THEN names[1]
    ELSE names[1] \o Sep \o JoinNames(Tail(names))

RelativePathOf(e) == JoinNames(Append(e.parent, e.name))

\* the extension of a name: what follows its last dot, in small letters
\* (none when the name has no dot)
RECURSIVE ExtensionOf(_)
ExtensionOf(name) ==
    IF name = <<>> THEN <<-1>>
    ELSE LET rest == ExtensionOf(Tail(name))
         IN  IF rest # <<-1>> THEN rest
             ELSE IF Head(name) = 46 THEN LowerCase(Tail(name))
             ELSE <<-1>>

\* the regular files of the tree with an image extension, by relative path
ImagesOf(present) ==
    {RelativePathOf(e) :
        e \in {x \in present : x.kind = "file" /\ ExtensionOf(x.name) \in ImageExtensions}}

ListedSet(list) == {list[i] : i \in DOMAIN list}

StrictlySorted(list) ==
    \A i \in DOMAIN list : \A j \in DOMAIN list : i < j => StrLess(list[i], list[j])

\* C14: the list getAllImages resolves with holds exactly the relative paths
\* of the regular files of the tree that have an image extension, each once,
\* in ascending order.
C14_ListsExactlyTheImagesSorted ==
    scan.outcome = "resolved"
        => /\ ListedSet(scan.images) = ImagesOf(scan.present)
           /\ StrictlySorted(scan.images)

\* C14 witness: the tree b.png, a.JPG, sub/c.webp, notes.txt is listed as
\* a.JPG, b.png, sub/c.webp
C14_Witness ==
    /\ scan.outcome = "resolved"
    /\ scan.present = {Entry(ScanRoot, NameBPng, "file"),
                       Entry(ScanRoot, NameAJpgUpper, "file"),
                       Entry(ScanRoot, NameSub, "dir"),
                       Entry(<<NameSub>>, NameCWebp, "file"),
                       Entry(ScanRoot, NameNotesTxt, "file")}
    /\ scan.images = <<NameAJpgUpper, NameBPng, NameSub \o Sep \o NameCWebp>>

\* the entries of the tree none of whose enclosing directories is unreadable
ReadableEntries(present, unreadable) ==
    {e \in present :
        \A n \in 0..Len(e.parent) : SubSeq(e.parent, 1, n) \notin unreadable}

\* C15: when the scan root can be read and a directory below it cannot, the
\* scan does not fail: it resolves with the images of the readable part of
\* the tree, the unreadable directory counting as empty.
C15_UnreadableSubtreeCountsAsEmpty ==
    (scan.pc \in {"settled", "loaded"} /\ ScanRoot \notin scan.unreadable)
        => /\ scan.outcome = "resolved"
           /\ ListedSet(scan.images)
                = ImagesOf(ReadableEntries(scan.present, scan.unreadable))

\* C16: when the directory getAllImages is called on cannot be read,
\* getAllImages rejects: its caller gets the failure and no list, neither an
\* empty nor a partial one.
C16_UnreadableRootRejects ==
    (scan.pc \in {"settled", "loaded"} /\ ScanRoot \in scan.unreadable)
        => /\ scan.outcome = "rejected"
           /\ scan.images = <<>>

\* C16 witness: the scan of an unreadable directory that holds images has
\* been rejected
C16_Witness ==
    /\ scan.pc = "settled"
    /\ scan.unreadable = {ScanRoot}
    /\ ImagesOf(scan.present) # {}
    /\ scan.outcome = "rejected"

\* a viewer over a list of at least one image, between renders
Walking == nav.view # "none" /\ nav.pc \in {"ready", "submitted"} /\ Len(nav.images) >= 1

NavigationOps == {"next", "prev", "first", "last", "auto"}

\* C18: a step of navigation in the slideshow (next, prev, first, last or
\* auto-advance) writes the current index and nothing else: the order, the
\* files on disk, the delay and a delete in progress are as before.
C18_NavigationChangesOnlyTheIndex ==
    [][(nav.view = "slideshow" /\ nav'.lastOp \in NavigationOps)
          => /\ nav'.images = nav.images
             /\ nav'.disk = nav.disk
             /\ fs' = fs
             /\ nav'.delay = nav.delay
             /\ nav'.pc = nav.pc
             /\ nav'.target = nav.target]_vars

\* C18 witness: auto-advance has moved the index over a list of three
\* images, all of them still on disk and in the list
C18_Witness ==
    /\ nav.view = "slideshow"
    /\ nav.lastOp = "auto"
    /\ nav.currentIndex # nav.before
    /\ Len(nav.images) = 3
    /\ nav.disk = {1, 2, 3}

\* C19: once the effects have run after a delete left at least one image in
\* the slideshow, the current index is in the range of the new list: it is
\* what it was when it was still in range, and the new last index when it
\* was beyond it.
C19_IndexClampedAfterDelete ==
    (nav.view = "slideshow" /\ nav.lastOp = "effects" /\ Len(nav.images) >= 1)
        => /\ nav.currentIndex >= 0
           /\ nav.currentIndex <= Len(nav.images) - 1
           /\ nav.currentIndex = IF nav.before <= Len(nav.images) - 1
                                 THEN nav.before
                                 ELSE Len(nav.images) - 1

\* C19 witness: the last of three images was deleted while it was shown,
\* and the index went from 2 to 1
C19_Witness ==
    /\ nav.view = "slideshow"
    /\ nav.lastOp = "effects"
    /\ nav.images = <<1, 2>>
    /\ nav.before = 2
    /\ nav.currentIndex = 1

\* a 32-bit unsigned integer, as its two halves
IsUint32(w) == w[1] >= 0 /\ w[1] < Half /\ w[2] >= 0 /\ w[2] < Half

\* the loader has answered a request for random order without a seed
SeedlessAnswered ==
    /\ req.response # "none"
    /\ req.asked.random
    /\ Falsy(req.asked.seedParam)

\* the answer is the redirect to the same url with a new seed in it, and it
\* carries no order
RedirectedWithSeed ==
    /\ req.response = "redirect"
    /\ req.order = "none"
    /\ IsUint32(req.drawn)
    /\ req.url.random = req.asked.random
    /\ ~Falsy(req.url.seedParam)
    /\ SeedOf(req.url.seedParam) = req.drawn

\* C20 as stated: every request for random order without a seed is answered
\* with the redirect to the same url with a new 32-bit seed and with no
\* order, and no navigation is redirected twice.
C20_SeedlessRandomRedirects ==
    /\ SeedlessAnswered => RedirectedWithSeed
    /\ req.redirects <= 1

\* C20 as amended: the same, for the requests whose directory resolves and
\* is scanned without a failure.
C20_SeedlessRandomRedirectsWhenScanned ==
    /\ (SeedlessAnswered /\ req.dirFound /\ req.scanned) => RedirectedWithSeed
    /\ req.redirects <= 1
    /\ (req.redirects = 1 /\ req.pc = "done" /\ req.scanned)
          => (req.order = "shuffled" /\ req.seed = req.drawn)

\* C20 witness: the request that followed the redirect was answered with
\* the order shuffled by the seed drawn, the largest one
C20_Witness ==
    /\ req.redirects = 1
    /\ req.pc = "done"
    /\ req.order = "shuffled"
    /\ req.drawn = SeedFromRandom(2 ^ RandomBits - 1)
    /\ req.seed = req.drawn

\* C21: in a slideshow session in random order, the load that follows a
\* delete is asked at the url shown before the delete, so it is never
\* answered with a redirect to a new seed, and the order it returns is
\* shuffled with the seed of the order shown before the delete.
C21_DeleteReloadKeepsSeed ==
    (req.deletes > 0 /\ req.shownOrder = "shuffled")
       => /\ req.url = req.shownUrl
          /\ req.response # "redirect"
          /\ req.redirects <= 1
          /\ req.order = "shuffled" => req.seed = req.shownSeed

\* C21 witness: two deletes in a session whose seed the loader drew, and the
\* second reload answered with the order shuffled by that seed
C21_Witness ==
    /\ req.deletes = MaxDeletes
    /\ req.redirects = 1
    /\ req.shownOrder = "shuffled"
    /\ req.pc = "done"
    /\ req.order = "shuffled"
    /\ req.seed = req.drawn
    /\ req.drawn # <<0, 0>>

\* C22: when random order is not asked for, every load returns exactly the
\* sorted list the scan gave it, whatever the seed in the url is.
C22_SequentialOrderIsSorted ==
    \A r \in Runs :
       (~shuf.random /\ shuf.run[r].pc = "done") => Order(r) = Scanned(r)

\* C22 witness: a finished load in sequential mode of the whole list of
\* MaxItems images, with a seed in the url
C22_Witness ==
    /\ ~shuf.random
    /\ shuf.seed = 1
    /\ shuf.removed = 0
    /\ shuf.run[1].pc = "done"
    /\ Order(1) = SortedImages(MaxItems)

\* C23: with PHOTO_DIRS unset or the empty string, every logical path
\* resolves to null, and no entry point makes a filesystem call.
C23_NoLibraryResolvesNull ==
    (LastResolved /\ photoDirsEnv \in {Unset, <<EmptyStr>>})
       => /\ last.resolved.kind = "null"
          /\ last.accessed = <<>>

\* C24: with a library configured, a logical path that is empty once its
\* leading and trailing slashes are trimmed ("", "/", "//") resolves to the
\* root with the whole list of libraries, and no filesystem call is made.
C24_EmptyPathResolvesToRoot ==
    (LastResolved /\ Len(PhotoDirs) >= 1 /\ \A i \in DOMAIN last.urlPath : last.urlPath[i] = "")
       => /\ last.resolved.kind = "root"
          /\ last.resolved.photoDirs = PhotoDirs
          /\ last.accessed = <<>>

\* C24 witness: "//" asked of the file loader with two libraries configured
C24_Witness ==
    /\ LastResolved
    /\ last.op = "api.photos"
    /\ last.urlPath = <<"", "", "">>
    /\ PhotoDirs = <<LibPhotos, LibPics>>
    /\ last.resolved = ResolvedRoot(<<LibPhotos, LibPics>>)
    /\ last.status = 404

\* a request is resolved in this step
ResolveServed ==
    /\ last.op = "none"
    /\ last'.op # "none"
    /\ last'.result \notin {"unauthorized", "ignored"}

\* no library has the segment for alias
NoAlias(segment) ==
    \A d \in 1..Len(PhotoDirs) : PathBasename(PhotoDirs[d]) # segment

\* the whole logical path exists beneath the root of library d
Under(f, d, cleanUrl) == Exists(f, PathJoin(PhotoDirs[d], cleanUrl))

\* the probes of libraries 1..d for the logical path, in configured order
ProbesUpTo(d, cleanUrl) ==
    [i \in 1..d |-> Access("access", PathJoin(PhotoDirs[i], cleanUrl), PhotoDirs[i])]

\* the entry of library d for the whole logical path
IsEntryOf(resolved, d, cleanUrl) ==
    /\ resolved.kind = "entry"
    /\ resolved.baseDir = PhotoDirs[d]
    /\ resolved.fullPath = PathJoin(PhotoDirs[d], cleanUrl)
    /\ resolved.relativePath = cleanUrl

\* what C25 asks of a path resolved at filesystem f
CompatFirstWins(f, resolved, cleanUrl) ==
    \E d \in 1..Len(PhotoDirs) :
       /\ Under(f, d, cleanUrl)
       /\ \A e \in 1..(d - 1) : ~Under(f, e, cleanUrl)
       /\ IsEntryOf(resolved, d, cleanUrl)
       /\ resolved.probes = ProbesUpTo(d, cleanUrl)

\* C25: when the first segment of a non-empty logical path is no alias and
\* the path exists beneath some library, the libraries are probed in
\* configured order with the whole path joined beneath each root, up to the
\* first under which the path exists, and the entry of that library is
\* returned.
C25_CompatSearchFirstExistingWins ==
    [][(/\ ResolveServed
        /\ TrimSlashes(last'.urlPath) # EmptyStr
        /\ NoAlias(TrimSlashes(last'.urlPath)[1])
        /\ \E d \in 1..Len(PhotoDirs) : Under(fs, d, TrimSlashes(last'.urlPath)))
       => CompatFirstWins(fs, last'.resolved, TrimSlashes(last'.urlPath))]_vars

\* C25 witness: a.jpg is in the second library and not in the first; the
\* file loader has probed both and served the file of the second
C25_Witness ==
    /\ last.op = "api.photos"
    /\ last.urlPath = <<"a.jpg">>
    /\ PhotoDirs = <<LibPhotos, LibPics>>
    /\ last.resolved.baseDir = LibPics
    /\ Len(last.resolved.probes) = 2
    /\ last.status = 200
    /\ last.body.of = FilePicsA
    /\ fs[FilePhotosA].kind = "none"

\* C26: when the first segment of a non-empty logical path is no alias and
\* the path exists beneath no library, the entry of the first library for
\* the whole logical path is returned: relativePath is the whole path, and
\* the result is neither the root nor null.
C26_DefaultsToFirstLibrary ==
    [][(/\ ResolveServed
        /\ Len(PhotoDirs) >= 1
        /\ TrimSlashes(last'.urlPath) # EmptyStr
        /\ NoAlias(TrimSlashes(last'.urlPath)[1])
        /\ \A d \in 1..Len(PhotoDirs) : ~Under(fs, d, TrimSlashes(last'.urlPath)))
       => IsEntryOf(last'.resolved, 1, TrimSlashes(last'.urlPath))]_vars

\* C26 witness: a.jpg is in neither of two libraries; the file loader has
\* probed both, resolved it into the first and answered not-found
C26_Witness ==
    /\ last.op = "api.photos"
    /\ last.urlPath = <<"a.jpg">>
    /\ PhotoDirs = <<LibPhotos, LibPics>>
    /\ fs[FilePhotosA].kind = "none"
    /\ fs[FilePicsA].kind = "none"
    /\ last.resolved.kind = "entry"
    /\ last.resolved.baseDir = LibPhotos
    /\ last.resolved.relativePath = <<"a.jpg">>
    /\ Len(last.resolved.probes) = 2
    /\ last.status = 404

\* the content type the extension table gives each file of the raw fetch
TableTypeOf(name) ==
    CASE name \in {"a.jpg", "c.Jpeg"} -> "image/jpeg"
      [] name \in {"b.PNG", "g.tar.png"} -> "image/png"
      [] name = "d.gif" -> "image/gif"
      [] name = "e.webp" -> "image/webp"
      [] name \in {"notes.txt", "jpg"} -> "application/octet-stream"

\* the file loader has served a caller it let through
FetchServed ==
    /\ last.op \in {"api.photos", "api.photos.open"}
    /\ last.result # "unauthorized"

\* the resolved path is a regular file
ResolvedIsFile ==
    /\ last.resolved.kind = "entry"
    /\ NodeAt(fs, Canonical(last.resolved.fullPath)).kind = "file"

\* C27: the raw fetch answers a path that resolves to a regular file with
\* the bytes of that file and the content type the extension table gives
\* its lower-cased extension (the generic binary type for the others); a
\* path that resolves to the root or to nothing, that does not exist or is
\* no regular file is answered not-found, and no answer is a server error.
C27_RawFetchServesFileOrNotFound ==
    FetchServed
       => /\ ResolvedIsFile
             => /\ last.status = 200
                /\ last.body = [of |-> Canonical(last.resolved.fullPath),
                                version |-> fs[Canonical(last.resolved.fullPath)].mtime]
                /\ last.contentType = TableTypeOf(PathBasename(last.resolved.fullPath))
          /\ ~ResolvedIsFile
             => /\ last.status = 404
                /\ last.body = NoBody
          /\ last.status < 500

\* C27 witness: b.PNG fetched by its alias and served as image/png
C27_Witness ==
    /\ FetchServed
    /\ last.urlPath = <<"photos", "b.PNG">>
    /\ ResolvedIsFile
    /\ last.status = 200
    /\ last.body.of = FetchFile("b.PNG")
    /\ last.contentType = "image/png"

IsSubdirectory(e) == e.kind = "dir"

IsListedFile(e) == e.kind = "file" /\ ExtensionOf(e.name) \in ImageExtensions

\* the names of the entries, in their order
NamesOf(entries) == [i \in 1..Len(entries) |-> entries[i].name]

\* the names and types of the items, in their order
ItemNames(items) == [i \in 1..Len(items) |-> items[i].name]
ItemTypes(items) == [i \in 1..Len(items) |-> items[i].type]

\* C28: the listing of a directory that can be read holds its immediate
\* subdirectories and its immediate regular files with an image extension
\* and nothing else; every directory item comes before every file item, and
\* each group is in the order in which the directory was enumerated.
C28_ListingDirsThenFilesInEnumerationOrder ==
    (scan.pc = "listed" /\ scan.outcome = "resolved")
       => /\ ListedSet(scan.enumerated) = {e \in scan.present : e.parent = ScanRoot}
          /\ ItemNames(scan.items)
               = NamesOf(SelectSeq(scan.enumerated, IsSubdirectory))
                   \o NamesOf(SelectSeq(scan.enumerated, IsListedFile))
          /\ \A i \in DOMAIN scan.items :
                scan.items[i].type
                  = IF i <= Len(SelectSeq(scan.enumerated, IsSubdirectory))
                    THEN "dir" ELSE "file"

\* C28 witness: the directory was enumerated as b.png, notes.txt, sub, a.JPG
\* and then x.jpg (a directory); the listing is sub, x.jpg, b.png, a.JPG
C28_Witness ==
    /\ scan.pc = "listed"
    /\ NamesOf(scan.enumerated)
         = <<NameBPng, NameNotesTxt, NameSub, NameAJpgUpper, NameXJpg>>
    /\ ItemNames(scan.items) = <<NameSub, NameXJpg, NameBPng, NameAJpgUpper>>
    /\ ItemTypes(scan.items) = <<"dir", "dir", "file", "file">>

\* the libraries whose root is named exactly as the segment
AliasedBy(segment) ==
    {d \in 1..Len(PhotoDirs) : PathBasename(PhotoDirs[d]) = segment}

\* the entry of library d for the path without its first segment, returned
\* with no probe made
IsAliasEntryOf(resolved, d, cleanUrl) ==
    /\ resolved.kind = "entry"
    /\ resolved.baseDir = PhotoDirs[d]
    /\ resolved.relativePath = (IF Len(cleanUrl) = 1 THEN EmptyStr ELSE Tail(cleanUrl))
    /\ resolved.fullPath
         = PathJoin(PhotoDirs[d], IF Len(cleanUrl) = 1 THEN EmptyStr ELSE Tail(cleanUrl))
    /\ resolved.probes = <<>>

\* C29: when the first segment of the logical path is exactly the alias of
\* a library, the entry of that library is returned and no existence probe
\* is made, whether or not the physical path exists there and whether or
\* not the whole logical path exists beneath another library; a first
\* segment that differs from every alias, be it by case only, and an alias
\* in a later segment, go through the probes of the compatibility search.
C29_AliasBeforeCompatSearch ==
    [][(/\ ResolveServed
        /\ Len(PhotoDirs) >= 1
        /\ TrimSlashes(last'.urlPath) # EmptyStr)
       => IF AliasedBy(TrimSlashes(last'.urlPath)[1]) # {}
          THEN /\ \A d \in AliasedBy(TrimSlashes(last'.urlPath)[1]) :
                     IsAliasEntryOf(last'.resolved, d, TrimSlashes(last'.urlPath))
               /\ \A i \in DOMAIN last'.accessed : last'.accessed[i].call # "access"
          ELSE /\ last'.resolved.kind = "entry"
               /\ last'.resolved.relativePath = TrimSlashes(last'.urlPath)
               /\ last'.resolved.probes # <<>>
               /\ last'.accessed[1].call = "access"]_vars

\* C29 witness: pics/a.jpg is asked for with a.jpg absent from the library
\* pics and present at pics/a.jpg beneath the library photos; the file
\* loader resolved it by the alias, probed nothing and answered not-found
C29_Witness ==
    /\ last.op = "api.photos"
    /\ last.urlPath = <<"pics", "a.jpg">>
    /\ PhotoDirs = <<LibPhotos, LibPics>>
    /\ FilePicsA \in DOMAIN fs
    /\ fs[FilePicsA].kind = "none"
    /\ FilePhotosPicsA \in DOMAIN fs
    /\ fs[FilePhotosPicsA].kind = "file"
    /\ last.resolved.branch = "alias"
    /\ last.resolved.baseDir = LibPics
    /\ last.resolved.probes = <<>>
    /\ last.accessed = <<Access("stat", <<"", "mnt", "pics", "a.jpg">>, LibPics)>>
    /\ last.status = 404

\* the location of the file the scan found for a relative path
ScannedLocation(fullDirPath, rel) == Canonical(fullDirPath) \o rel

\* C30: for every image of the list the slideshow loader returned, the
\* logical path the component builds for it resolves to the physical file
\* the scan found; a fetch or a delete served for such a path has read or
\* removed a listed file.
C30_ViewerPathResolvesToScannedFile ==
    (nav.view = "slideshow" /\ ListIsCurrent)
       => \A rel \in nav.found :
             /\ resolvePhotoPath(fs, ImagePath(nav.currentPath, rel)).kind = "entry"
             /\ Canonical(resolvePhotoPath(fs, ImagePath(nav.currentPath, rel)).fullPath)
                  = ScannedLocation(nav.fullDirPath, rel)

\* the index, counted from 0, at which the first load shows the image that
\* is deleted
DeletedAt == IndexOf(Order(1), shuf.removed)

\* C31: when the image shown at index i of the order is deleted and is not
\* the last of the order, the order the reload returns has at index i the
\* image that followed the deleted one, in sequential mode and in random
\* mode with the seed kept.
C31_IndexShowsFollowingItemAfterDelete ==
    (BothLoadsDone /\ shuf.removed # 0 /\ DeletedAt < Len(Order(1)) - 1)
       => Order(2)[DeletedAt + 1] = Order(1)[DeletedAt + 2]

\* the request in slot r has computed its cache key
Keyed(r) == thumb[r].key # NoKey

\* C32: two requests get the same cache key when their physical paths and
\* modification times are the same, and different strings are fed to the
\* hash, hence different keys are given, when the pairs differ.
C32_KeySeparatesPathAndMtimePairs ==
    \A r \in Slots : \A s \in Slots :
       (Keyed(r) /\ Keyed(s))
          => ((thumb[r].key = thumb[s].key)
                <=> (/\ thumb[r].resolved.fullPath = thumb[s].resolved.fullPath
                     /\ thumb[r].mtime = thumb[s].mtime))

\* how often an image is in a list
CountIn(images, x) == Cardinality({i \in DOMAIN images : images[i] = x})

\* C33: while the shuffle runs and when it is done, the list of a load in
\* random mode is a permutation of the sorted list it scanned: it has the
\* same length and holds every image of the scan exactly once, and no
\* other.
C33_ShuffleIsPermutation ==
    \A r \in Runs :
       (shuf.random /\ shuf.run[r].pc \in {"loop", "done"})
          => /\ Len(shuf.run[r].images) = Len(Scanned(r))
             /\ \A i \in DOMAIN Scanned(r) : CountIn(shuf.run[r].images, Scanned(r)[i]) = 1
             /\ \A i \in DOMAIN shuf.run[r].images :
                   CountIn(Scanned(r), shuf.run[r].images[i]) = 1

\* C33 witness: a finished shuffle of MaxItems images that moved the first
\* and the last image
C33_Witness ==
    /\ shuf.random
    /\ shuf.removed = 0
    /\ shuf.run[1].pc = "done"
    /\ Len(Order(1)) = MaxItems
    /\ Order(1)[1] # 1
    /\ Order(1)[MaxItems] # MaxItems

\* the delete served in this step removed the file at the resolved path,
\* and nothing else, and reported success
DeletedAndSucceeded ==
    /\ last'.result \in {"ok", "redirect"}
    /\ last'.resolved.kind = "entry"
    /\ NodeAt(fs, Canonical(last'.resolved.fullPath)).kind = "file"
    /\ fs' = FileRemoved(fs, last'.resolved.fullPath)

\* the delete served in this step removed nothing and reported an error
RefusedWithError ==
    /\ last'.result = "error"
    /\ fs' = fs

\* C34: every delete either removes the one file at the resolved physical
\* path, leaves everything else as it was and reports success (ok or a
\* redirect), or leaves the filesystem as it was and reports an error.
C34_DeleteSucceedsOrReportsError ==
    [][DeleteServed => (DeletedAndSucceeded \/ RefusedWithError)]_vars

\* C35: in a slideshow that is rendered over N >= 1 images, whatever steps
\* to the next, the previous, the first and the last image and whatever
\* ticks of the timer were made, the index is at least 0 and at most N - 1,
\* so that the current image is defined.
C35_IndexStaysInRange ==
    (nav.view = "slideshow" /\ nav.pc \in {"ready", "submitted"} /\ Len(nav.images) >= 1)
       => /\ nav.currentIndex >= 0
          /\ nav.currentIndex <= Len(nav.images) - 1
          /\ Shown(nav)

\* C35 witness: over MaxShown images with the timer running, the End key
\* has set the index to the last image
C35_Witness ==
    /\ nav.view = "slideshow"
    /\ nav.pc = "ready"
    /\ Len(nav.images) = MaxShown
    /\ nav.delay = "finite"
    /\ nav.lastOp = "last"
    /\ nav.before = 0
    /\ nav.currentIndex = MaxShown - 1

\* the images of the directory when the delete was submitted
ListingAtDelete == nav.disk \cup {nav.target}

\* the image after image in the sorted listing, the first one after the last
FollowingImage(listing, image) ==
    IF \E j \in listing : j > image
    THEN CHOOSE j \in listing : j > image /\ \A k \in listing : k > image => j <= k
    ELSE CHOOSE j \in listing : \A k \in listing : j <= k

\* C36: in the single-image view, once a delete of the current image has
\* succeeded and its redirect is followed: when the directory held more than
\* one image the view shows the image after the deleted one in the sorted
\* listing (the first one after the last), an image other than the deleted
\* one that is still on disk; when it held only that image the listing of
\* the directory is shown.
C36_DeleteRedirectsToNextImageOrListing ==
    nav.lastOp = "redirected"
       => IF Cardinality(ListingAtDelete) > 1
          THEN /\ nav.view = "photo"
               /\ Shown(nav)
               /\ nav.images[nav.currentIndex + 1] = FollowingImage(ListingAtDelete, nav.target)
               /\ nav.images[nav.currentIndex + 1] # nav.target
               /\ nav.images[nav.currentIndex + 1] \in nav.disk
          ELSE /\ nav.view = "listing"
               /\ nav.disk = {}

\* C36 witness: the last of MaxShown images was deleted and the view went to
\* the first one
C36_Witness ==
    /\ nav.lastOp = "redirected"
    /\ nav.view = "photo"
    /\ nav.target = MaxShown
    /\ nav.before = MaxShown - 1
    /\ Cardinality(nav.disk) = MaxShown - 1
    /\ nav.currentIndex = 0

\* C36 witness of the other case: the only image was deleted and the listing
\* is shown
C36_WitnessOnlyImage ==
    /\ nav.lastOp = "redirected"
    /\ nav.view = "listing"
    /\ nav.target = 1
    /\ nav.disk = {}

\* the calls of the request served in this step that probe for existence
ProbesMade == {i \in DOMAIN last'.accessed : last'.accessed[i].call = "access"}

\* C37: resolving a path creates, modifies and removes nothing: the
\* filesystem after a request is the one before it, but for the file a
\* delete unlinks at the resolved path; and existence is probed only by the
\* compatibility search: a path that resolves to nothing, to the root or by
\* its alias is resolved without a probe, and the probes of the search are
\* the first calls of the request.
C37_ResolveProbesOnlyInCompatibilitySearch ==
    [][ResolveServed =>
          /\ last'.resolved.branch \in {"null", "root", "alias"}
                => (last'.resolved.probes = <<>> /\ ProbesMade = {})
          /\ ProbesMade = DOMAIN last'.resolved.probes
          /\ \A i \in DOMAIN last'.resolved.probes :
                last'.accessed[i] = last'.resolved.probes[i]
          /\ last'.op \notin DeleteOps => fs' = fs
          /\ last'.op \in DeleteOps
                => fs' \in {fs, FileRemoved(fs, last'.resolved.fullPath)}]_vars

\* C37 witness: a file was served by its alias with both libraries
\* configured, after a stat and a read and no probe
C37_Witness ==
    /\ last.op = "api.photos"
    /\ last.result = "file"
    /\ Len(PhotoDirs) = 2
    /\ last.resolved.branch = "alias"
    /\ last.accessed # <<>>

\* the step sets the index of the slideshow
IndexChanges == nav.view = "slideshow" /\ nav'.currentIndex # nav.currentIndex

\* the step is a tick of the timer
TimerTicks == nav.view = "slideshow" /\ nav'.lastOp = "auto"

\* from some point on the slideshow is rendered over its list with a finite
\* delay selected, and only the timer acts
OnlyTheTimerActs ==
    /\ <>[](nav.view = "slideshow" /\ nav.pc = "ready" /\ nav.delay = "finite"
               /\ Len(nav.images) >= 1)
    /\ <>[][TimerTicks]_vars

\* C38: with the infinite delay, the default, the index of the slideshow is
\* changed by a step of navigation or by the clamping after a delete and
\* never by the timer, which does not tick; with a finite delay over N >= 1
\* images every tick sets the index to the next one, from N - 1 to 0; and
\* once only the timer acts, every image is shown again and again.
C38_TimerAdvancesOnlyWithFiniteDelay ==
    /\ [][(IndexChanges /\ nav.delay = "infinite")
             => nav'.lastOp \in {"next", "prev", "first", "last", "effects"}]_vars
    /\ [][TimerTicks => nav.delay = "finite"]_vars
    /\ [][(TimerTicks /\ Walking)
             => nav'.currentIndex = (nav.currentIndex + 1) % Len(nav.images)]_vars
    /\ OnlyTheTimerActs
          => \A i \in 0..(MaxShown - 1) :
                []<>(i < Len(nav.images) => nav.currentIndex = i)

\* C38 witness: with a finite delay over MaxShown images the timer has
\* ticked on the last image and the first one is shown
C38_Witness ==
    /\ nav.view = "slideshow"
    /\ nav.pc = "ready"
    /\ nav.delay = "finite"
    /\ Len(nav.images) = MaxShown
    /\ nav.lastOp = "auto"
    /\ nav.before = MaxShown - 1
    /\ nav.currentIndex = 0
    /\ nav.run = MaxShown

\* the slideshow is rendered for the virtual root with a library configured
RootSlideshow ==
    /\ nav.view = "slideshow"
    /\ TrimSlashes(nav.currentPath) = EmptyStr
    /\ Len(PhotoDirs) >= 1

\* the image files beneath library d, by their paths from its root
ImagesBeneath(f, d) ==
    {SubSeq(loc, Len(Canonical(PhotoDirs[d])) + 1, Len(loc)) :
        loc \in {l \in DOMAIN f : /\ f[l].kind = "file"
                                  /\ Len(l) > Len(Canonical(PhotoDirs[d]))
                                  /\ IsPrefix(Canonical(PhotoDirs[d]), l)
                                  /\ IsImageName(Chars(l[Len(l)]))}}

\* C39: the slideshow loader called for the virtual root scans the first
\* configured library and no other: every image it returns lies beneath the
\* root of the first library and beneath that of no other library, and while
\* the list is current it holds every image beneath the first library, when
\* that is a directory.
C39_RootSlideshowScansFirstLibraryOnly ==
    RootSlideshow
       => /\ nav.fullDirPath = PhotoDirs[1]
          /\ \A rel \in nav.found :
                /\ IsPrefix(Canonical(PhotoDirs[1]), ScannedLocation(PhotoDirs[1], rel))
                /\ ScannedLocation(PhotoDirs[1], rel) \in DOMAIN fs
                /\ \A d \in 2..Len(PhotoDirs) :
                      ~IsPrefix(Canonical(PhotoDirs[d]), ScannedLocation(PhotoDirs[1], rel))
          /\ (ListIsCurrent /\ PhotoDirs[1] # EmptyStr
                 /\ NodeAt(fs, Canonical(PhotoDirs[1])).kind = "dir")
                => nav.found = ImagesBeneath(fs, 1)

\* C39 witness: with two libraries that both hold images, the slideshow of
\* the root lists the two images of the first one
C39_Witness ==
    /\ RootSlideshow
    /\ Len(PhotoDirs) = 2
    /\ ImagesBeneath(fs, 2) # {}
    /\ nav.found = {<<"a.jpg">>, <<"pics", "a.jpg">>}

=============================================================================
